---- MODULE Spec2Model ----
(***************************************************************************)
(* MpiTreeClient (src/caffe/internode/tree_cluster.cpp): the tree-topology *)
(* waypoint of the multinode trainer.  Every rank of the cluster runs one  *)
(* MpiTreeClient; the MPI library is the transport between them.           *)
(*                                                                         *)
(* One poll_one call is one step of the model: it runs on the single       *)
(* polling thread, and the callbacks it invokes run inside it.             *)
(***************************************************************************)
EXTENDS Integers, Sequences, FiniteSets, TLC

\* ------------------------------------------------------------------ bounds
\* Largest cluster size (mpi_get_comm_size) explored.
MaxNodes == 5
\* Calls to async_send_to_parent / async_send_to_children, cluster-wide.
MaxSends == 1
\* Messages the peers of the waypoint send to it.
MaxInbound == 1
\* Handlers registered per rank.
MaxHandlers == 1
\* Operations the transport completes with an error, cluster-wide.
MaxFaults == 1
\* Sends submitted in one burst before the first poll tick (SpecBP).
MaxBurst == 101
\* Sends a stalled transport completes one by one (SpecBP).
Trickle == 8
\* Handlers registered at, messages sent to, and calls of set_buffer_size
\* made at, the receiving waypoint (SpecInbound).
MaxRegistered == 2
MaxReceived == 2
MaxSized == 2

\* ------------------------------------------------------- program constants
\* poll_one warns when more than this many requests stay pending.
WarnThreshold == 100

\* The byte strings callers send: three bytes up to the parent, four bytes
\* down to the children, the first byte naming the sending rank so that a
\* receiver's bytes can be traced to their sender.
UpPayload(r) == <<r, 2, 3>>
DownPayload(r) == <<r, 8, 7, 6>>

\* The packet size callers give to set_buffer_size (the largest packet).
MaxPacketSize == 4

Ranks == 0 .. (MaxNodes - 1)

VARIABLES
  count,                \* mpi_get_comm_size(): number of ranks of the run
  handlers,             \* handlers[r]: registered Handler*, in push_back order
  requests,             \* requests[r]: staging list (guarded by mtx)
  requests_to_process,  \* requests_to_process[r]: working set of poll_one
  buffer,               \* buffer[r]: the receive buffer
  ops,                  \* ops[r][i]: the MPI_Request behind request id i
  msgs,                 \* msgs[r]: messages sent to r, not yet matched
  cbLog,                \* cbLog[r]: callbacks invoked by poll_one, in order
  hlog,                 \* hlog[r]: handler entry points invoked, in order
  sent,                 \* sent[r][k]: ok values given to on_sent of call k
  bcast,                \* bcast[r][b]: BroadcastCallback of call b
  warned,               \* warned[r]: the last poll_one logged the warning
  nsends,               \* send calls made so far, cluster-wide
  ninbound,             \* messages sent by peers so far
  nfaults,              \* operations completed with an error, cluster-wide
  children_ret,         \* children_ret[r]: what children() returned at rank r
  parent_ret,           \* parent_ret[r]: what parent() returned at rank r
  ready_order,          \* ready_order[r]: requests the transport completed and
                        \* poll_one has not consumed, in completion order
  posted,               \* posted[r]: poll_one handlers queued on the io_service
  main_thread_id,       \* main_thread_id[r]: thread of the first poll_one
  poll_thread,          \* poll_thread[r]: thread of the latest poll_one call
  assert_failed,        \* assert_failed[r]: the assert of poll_one has failed
  pc,                   \* pc[r]: where the poll_one of the io_service stands
  use_mpi,              \* the build defines USE_MPI
  instances,            \* instances[r]: MpiTreeClient objects constructed
  got,                  \* got[r]: results of the get_instance calls, in order
  mtx,                  \* mtx[r]: the recursive mutex: lk counts the locks held
                        \* when a call ends, stuck tells a lock could never
                        \* be granted
  sized,                \* sized[r]: calls of set_buffer_size made at rank r
  unheard,              \* unheard[r]: the receives of rank r the transport
                        \* completed while no handler was registered there
  disp                  \* disp[r]: the call of received() under way at rank r:
                        \* the request it completes, its snapshot to_call of
                        \* the handlers and its loop index i

vars == <<count, handlers, requests, requests_to_process, buffer, ops, msgs,
          cbLog, hlog, sent, bcast, warned, nsends, ninbound,
          nfaults, children_ret, parent_ret, ready_order, posted,
          main_thread_id, poll_thread, assert_failed, pc, use_mpi, instances,
          got, mtx, sized, unheard, disp>>

\* The state of the event loop and of the polling thread check.
loopVars == <<posted, main_thread_id, poll_thread, assert_failed, pc, disp>>

\* The state of TreeWaypoint::get_instance.
hostVars == <<use_mpi, instances, got>>

\* The fields of the MpiTreeClient objects, their MPI requests, what their
\* callbacks have done, and the messages under way.
rankVars == <<handlers, requests, requests_to_process, buffer, ops, msgs,
              cbLog, hlog, sent, bcast, warned, ready_order, mtx, sized, unheard>>

\* ---------------------------------------------------------------- topology
\* A parent() that halves the rank itself.
parentHalf(r) == IF r = 0 THEN 0 ELSE r \div 2

\* A parent() without the case of the root.
parentNoRootCase(r) == (r - 1) \div 2

\* MpiTreeClient::parent(): 0 at the root, floor((current-1)/2) elsewhere.
parent(r) == IF r = 0 THEN 0 ELSE (r - 1) \div 2

\* A children() that counts the children from 2r.
childrenFromTwoR(r, n) ==
  IF n < 2 THEN <<>>
  ELSE (IF r * 2 < n THEN <<r * 2>> ELSE <<>>)
       \o (IF r * 2 + 1 < n THEN <<r * 2 + 1>> ELSE <<>>)

\* A children() that does not compare the first child with the comm size.
childrenUnchecked(r, n) ==
  <<r * 2 + 1>> \o (IF r * 2 + 2 < n THEN <<r * 2 + 2>> ELSE <<>>)

\* A children() that stops after the first child.
childrenFirstOnly(r, n) ==
  IF n < 2 THEN <<>>
  ELSE IF r * 2 + 1 < n THEN <<r * 2 + 1>> ELSE <<>>

\* MpiTreeClient::children(): 2r+1 and 2r+2, each if below the comm size.
children(r, n) ==
  IF n < 2 THEN <<>>
  ELSE (IF r * 2 + 1 < n THEN <<r * 2 + 1>> ELSE <<>>)
       \o (IF r * 2 + 2 < n THEN <<r * 2 + 2>> ELSE <<>>)

\* ------------------------------------------------------------ MPI requests
\* struct MpiRequest: the MPI_Request handle (id indexes ops[r]), the
\* callback (cb names the bound function, arg its bound state) and the
\* fields is_ready fills in.
MpiRequest(id, cb, arg) ==
  [id |-> id, cb |-> cb, arg |-> arg, ok |-> FALSE, sender |-> 0, size |-> 0]

\* The request object MPI_Irecv starts: a receive from MPI_ANY_SOURCE.
\* test / cnt are the results MPI_Test and MPI_Get_count will return,
\* source and size the MPI_Status; all are set when the transport completes it.
\* cap is the count argument: the bytes the receive may write.
IrecvOp ==
  [kind |-> "recv", st |-> "pending", test |-> TRUE, cnt |-> TRUE,
   source |-> 0, size |-> 0, dest |-> 0, data |-> <<>>, cap |-> 0]

\* The request object MPI_Isend starts.  MPI leaves MPI_SOURCE and the count
\* of a send's status unset; no callback of a send reads them.
IsendOp(dest, data) ==
  [kind |-> "send", st |-> "pending", test |-> TRUE, cnt |-> TRUE,
   source |-> 0, size |-> 0, dest |-> dest, data |-> data, cap |-> 0]

\* The part of the state one call at rank r works on; out collects the
\* messages its MPI_Isend calls hand to the transport.
Local(r) ==
  [reqs |-> requests[r], work |-> requests_to_process[r], ops |-> ops[r],
   cb |-> cbLog[r], hl |-> hlog[r], sent |-> sent[r], bc |-> bcast[r],
   hs |-> handlers[r], buf |-> buffer[r], warn |-> warned[r], out |-> <<>>,
   rdy |-> ready_order[r], lk |-> mtx[r].lk, stuck |-> mtx[r].stuck,
   sized |-> sized[r], unheard |-> unheard[r]]

\* Messages of out addressed to rank d, in posting order.
OutTo(out, d) ==
  LET to(m) == m.dst = d
      sel == SelectSeq(out, to)
  IN  [i \in 1 .. Len(sel) |-> [src |-> sel[i].src, data |-> sel[i].data]]

\* Writes the result L of a call at rank r back to the state.
Store(r, L) ==
  /\ requests' = [requests EXCEPT ![r] = L.reqs]
  /\ requests_to_process' = [requests_to_process EXCEPT ![r] = L.work]
  /\ ops' = [ops EXCEPT ![r] = L.ops]
  /\ cbLog' = [cbLog EXCEPT ![r] = L.cb]
  /\ hlog' = [hlog EXCEPT ![r] = L.hl]
  /\ sent' = [sent EXCEPT ![r] = L.sent]
  /\ bcast' = [bcast EXCEPT ![r] = L.bc]
  /\ handlers' = [handlers EXCEPT ![r] = L.hs]
  /\ buffer' = [buffer EXCEPT ![r] = L.buf]
  /\ warned' = [warned EXCEPT ![r] = L.warn]
  /\ msgs' = [d \in Ranks |-> msgs[d] \o OutTo(L.out, d)]
  /\ ready_order' = [ready_order EXCEPT ![r] = L.rdy]
  /\ mtx' = [mtx EXCEPT ![r] = [lk |-> L.lk, stuck |-> L.stuck]]
  /\ sized' = [sized EXCEPT ![r] = L.sized]
  /\ unheard' = [unheard EXCEPT ![r] = L.unheard]

\* A scoped_lock on a mutex that is not recursive: a thread that holds the
\* lock and asks for it again waits for itself.
LockPlain(L) ==
  IF L.stuck THEN L
  ELSE IF L.lk = 0 THEN [L EXCEPT !.lk = 1] ELSE [L EXCEPT !.stuck = TRUE]

\* boost::recursive_mutex::scoped_lock lock(mtx), by the thread running the
\* call: calls of one rank's threads that hold the lock exclude each other
\* (each is one step), so the lock is free or held by the caller itself,
\* who is granted it once more.
Lock(L) == IF L.stuck THEN L ELSE [L EXCEPT !.lk = @ + 1]

\* The end of the scope of a scoped_lock.
Unlock(L) == IF L.stuck THEN L ELSE [L EXCEPT !.lk = @ - 1]

\* MpiTreeClient::id(), as far as the mutex goes: lock, read the rank, unlock.
idLocked(L) == Unlock(Lock(L))

\* MpiTreeClient::parent() and children(), as far as the mutex goes: lock,
\* call id(), unlock (what they return is parent(r), children(r, n)).
parentLocked(L) == Unlock(idLocked(Lock(L)))

\* MPI_Isend(buffer, size, MPI_CHAR, dest, MSG_TAG, ...): starts the send
\* and makes the message available to the transport.
Isend(r, L, dest, data) ==
  [L EXCEPT !.ops = Append(@, IsendOp(dest, data)),
            !.out = Append(@, [dst |-> dest, src |-> r, data |-> data])]

\* MpiTreeClient::set_recv: start a wildcard receive into buffer, of
\* buffer.size() bytes, and push the request, bound to received(), on the
\* staging list.
set_recv(L) ==
  Unlock([Lock(L) EXCEPT
            !.ops = Append(@, [IrecvOp EXCEPT !.cap = Len(L.buf)]),
            !.reqs = Append(@, MpiRequest(Len(L.ops) + 1, "received", 0))])

\* A set_buffer_size that arms the receive before it resizes the buffer.
set_buffer_sizeArmFirst(L, n) ==
  Unlock([set_recv(Lock(L)) EXCEPT
            !.buf = [i \in 1 .. n |-> IF i <= Len(L.buf) THEN L.buf[i] ELSE 0],
            !.sized = @ + 1])

\* MpiTreeClient::set_buffer_size: resize the buffer, arm a receive (sized
\* counts the calls).
set_buffer_size(L, n) ==
  Unlock(set_recv([Lock(L) EXCEPT
                     !.buf = [i \in 1 .. n |->
                                IF i <= Len(L.buf) THEN L.buf[i] ELSE 0],
                     !.sized = @ + 1]))

\* A register_receive_handler that puts the new handler first.
register_receive_handlerFront(L, h) ==
  Unlock([Lock(L) EXCEPT !.hs = <<h>> \o @])

\* MpiTreeClient::register_receive_handler: handlers.push_back(handler).
register_receive_handler(L, h) == Unlock([Lock(L) EXCEPT !.hs = Append(@, h)])

\* MpiTreeClient::async_send_to_parent: one MPI_Isend to parent(), pushed on
\* the staging list with the caller's callback.
async_send_to_parent(r, L, data) ==
  LET L1 == Isend(r, parentLocked(Lock(L)), parent(r), data)
  IN  Unlock([L1 EXCEPT !.sent = Append(@, <<>>),
                        !.reqs = Append(@, MpiRequest(Len(L1.ops), "sent",
                                                      Len(L.sent) + 1))])

\* ------------------------------------------------------- fan-out aggregator
\* BroadcastCallback<SentCallback> (caffe/internode/broadcast_callback.hpp):
\* the counter shared by the child sends of one async_send_to_children call.
\* left counts the child sends still to complete, result accumulates their
\* ok values, done lists the ok values on_done was invoked with; sends are
\* the ids of the requests wrapped with it.
BroadcastCallbackNew == [left |-> 0, result |-> TRUE, done |-> <<>>, sends |-> <<>>]

\* Wrapping one more child send with the counter.
BroadcastCallbackWrap(bc, id) ==
  [bc EXCEPT !.left = @ + 1, !.sends = Append(@, id)]

\* End of the issuing call: with no child wrapped, on_done fires with success.
BroadcastCallbackIssued(bc) ==
  IF bc.left = 0 THEN [bc EXCEPT !.done = Append(@, bc.result)] ELSE bc

\* One child's completion (ok, size, sender): decrement, accumulate, and
\* fire on_done with the accumulated result when the counter reaches zero.
BroadcastCallbackCall(bc, ok) ==
  LET res == bc.result /\ ok
  IN  [bc EXCEPT !.left = @ - 1, !.result = res,
                 !.done = IF bc.left = 1 THEN Append(@, res) ELSE @]

\* The loop of async_send_to_children over children_ids[i ..]: one MPI_Isend
\* per child, each pushed on the staging list with the broadcast callback.
RECURSIVE SendToEach(_, _, _, _, _)
SendToEach(r, L, kids, data, b) ==
  IF kids = <<>> THEN L
  ELSE LET L1 == Isend(r, L, Head(kids), data)
           id == Len(L1.ops)
           L2 == [L1 EXCEPT !.reqs = Append(@, MpiRequest(id, "bcast", b)),
                            !.bc[b] = BroadcastCallbackWrap(@, id)]
       IN  SendToEach(r, L2, Tail(kids), data, b)

\* MpiTreeClient::async_send_to_children.
async_send_to_children(r, L, n, data) ==
  LET b  == Len(L.bc) + 1
      L0 == [parentLocked(Lock(L)) EXCEPT !.bc = Append(@, BroadcastCallbackNew)]
      L1 == SendToEach(r, L0, children(r, n), data, b)
  IN  Unlock([L1 EXCEPT !.bc[b] = BroadcastCallbackIssued(@)])

\* ------------------------------------------------------- completion poller
\* An is_ready that reports every request ready.
is_readyAlways(L, req) == TRUE

\* The flag MPI_Test returns for a request (is_ready's return value).
is_ready(L, req) == L.ops[req.id].st = "done"

\* The ok is_ready leaves in the request: it is assigned from MPI_Test's
\* result and then assigned again from MPI_Get_count's result.
RequestOk(op) == op.cnt

\* is_ready's effect on a request whose flag is set.
Tested(L, req) ==
  IF is_ready(L, req)
  THEN [req EXCEPT !.ok = RequestOk(L.ops[req.id]),
                   !.sender = L.ops[req.id].source,
                   !.size = L.ops[req.id].size]
  ELSE req

\* A received() without the branch for the parent.
EntryPointChildOnly(r, sender) == "child"

\* The handler entry point received() picks for a message from sender.
EntryPoint(r, sender) == IF sender = parent(r) THEN "parent" ELSE "child"

\* A received() that hands the handlers the buffer's capacity as size.
HandlerSizeCapacity(L, req) == Len(L.buf)

\* The size received() hands to the handlers: the received byte count.
HandlerSize(L, req) == req.size

\* A received() that re-arms on the success path only.
RearmOnSuccess(L, ok) == IF ok THEN set_recv(L) ELSE L

\* A received() that arms two receives.
RearmTwice(L, ok) == set_recv(set_recv(L))

\* The receive armed at the end of received().
Rearm(L, ok) == set_recv(L)

\* The handler whose entry points reply at once (Handler implementations
\* are the consumers' code): a message from a child is answered with a send
\* to the parent, a message from the parent with a send to the children.
ReplyingHandler == 0

\* What the replying handler sends up and down.
UpReply(r) == <<r, 5>>
DownReply(r) == <<r, 4>>

\* The body of one handler entry point, run inside received().
HandlerRuns(r, L, call) ==
  IF call.h # ReplyingHandler THEN L
  ELSE IF call.entry = "child" THEN async_send_to_parent(r, L, UpReply(r))
  ELSE async_send_to_children(r, L, count, DownReply(r))

\* The loop of received() over to_call: entry point i is invoked (and
\* logged), runs, returns; then the next one.
RECURSIVE HandlersRun(_, _, _, _)
HandlersRun(r, L, calls, i) ==
  IF i > Len(calls) THEN L
  ELSE HandlersRun(r, HandlerRuns(r, [L EXCEPT !.hl = Append(@, calls[i])],
                                  calls[i]),
                   calls, i + 1)

\* MpiTreeClient::received: on success snapshot the handlers under the
\* lock, ask parent(), call every handler of the snapshot with the buffer;
\* then always re-arm the receive.
received(r, L, req) ==
  LET to_call == L.hs
      ep == EntryPoint(r, req.sender)
      calls == [i \in 1 .. Len(to_call) |->
                 [op |-> req.id, entry |-> ep, h |-> to_call[i],
                  data |-> SubSeq(L.buf, 1, HandlerSize(L, req)),
                  size |-> HandlerSize(L, req),
                  sender |-> IF ep = "child" THEN req.sender ELSE -1]]
      L1 == IF req.ok
            THEN HandlersRun(r, parentLocked(Unlock(Lock(L))), calls, 1)
            ELSE L
  IN  Rearm(L1, req.ok)

\* A poll_one that reports success whatever is_ready found.
CallbackOkAlways(req) == TRUE

\* The ok poll_one passes to a callback: it->ok.
CallbackOk(req) == req.ok

\* The place of request id in a completion order (0 if it is not in it).
Place(order, id) ==
  IF \E k \in 1 .. Len(order) : order[k] = id
  THEN CHOOSE k \in 1 .. Len(order) : order[k] = id
  ELSE 0

\* How many requests submitted after request id the transport completed
\* before it, among those not yet consumed.
Overtaken(order, id) ==
  Cardinality({k \in 1 .. (Place(order, id) - 1) : order[k] > id})

\* it->callback(it->ok, it->size, it->sender) for one ready request; late
\* notes how many later requests the transport had completed before it,
\* held how many locks of mtx the poller holds as it invokes the callback.
Callback(r, L, req) ==
  LET ok == CallbackOk(req)
      L1 == [L EXCEPT !.cb = Append(@, [op |-> req.id, ok |-> ok,
                                        size |-> req.size,
                                        sender |-> req.sender,
                                        late |-> Overtaken(L.rdy, req.id),
                                        held |-> L.lk])]
  IN  CASE req.cb = "received" -> received(r, L1, [req EXCEPT !.ok = ok])
        [] req.cb = "sent" -> [L1 EXCEPT !.sent[req.arg] = Append(@, ok)]
        [] req.cb = "bcast" ->
             [L1 EXCEPT !.bc[req.arg] = BroadcastCallbackCall(@, ok)]

\* The loop of poll_one over [begin, middle): the callbacks of its requests
\* lo .. hi in order, folded in two halves to keep the evaluation shallow.
\* (L1, the state after the first half, is bound once and handed on.)
RECURSIVE Callbacks(_, _, _, _, _)
Callbacks(r, L, ready, lo, hi) ==
  IF lo > hi THEN L
  ELSE IF lo = hi THEN Callback(r, L, ready[lo])
  ELSE CHOOSE after \in
         {Callbacks(r, L1, ready, ((lo + hi) \div 2) + 1, hi) :
            L1 \in {Callbacks(r, L, ready, lo, (lo + hi) \div 2)}} : TRUE

\* A poll_one whose callback loop runs to end() instead of middle.
ReadyPartToEnd(L, work) == [i \in 1 .. Len(work) |-> Tested(L, work[i])]

\* [begin, middle) after std::stable_partition by is_ready: the requests
\* whose flag is set, in working-set order, with is_ready's results.
ReadyPart(L, work) ==
  LET t == [i \in 1 .. Len(work) |-> Tested(L, work[i])]
      rdy(q) == is_ready(L, q)
  IN  SelectSeq(t, rdy)

\* A poll_one that partitions with std::partition: the requests still
\* pending come out in reverse order.
PendingPartUnstable(L, work) ==
  LET pnd(q) == ~is_ready(L, q)
      left == SelectSeq(work, pnd)
  IN  [i \in 1 .. Len(left) |-> left[Len(left) + 1 - i]]

\* [middle, end): the requests still pending, in working-set order.
PendingPart(L, work) ==
  LET pnd(q) == ~is_ready(L, q)
  IN  SelectSeq(work, pnd)

\* A poll_one that forgets to erase the consumed range.
KeptAll(L, work) == work

\* What poll_one leaves in the working set: it erases [begin, middle).
Kept(L, work) == PendingPart(L, work)

\* A poll_one that warns from the threshold on.
WarnsAtThreshold(work) == Len(work) >= WarnThreshold

\* The condition of poll_one's warning.
Warns(work) == Len(work) > WarnThreshold

\* A poll_one that sheds what exceeds the threshold.
AfterWarningShed(work) ==
  IF Len(work) > WarnThreshold THEN SubSeq(work, 1, WarnThreshold) ELSE work

\* The working set after the warning branch: LOG(WARNING) only.
AfterWarning(work) == work

\* What is left of the completion order after a tick: the requests the
\* tick has consumed are gone from it.
StillReady(order, left, staged) ==
  LET waits(id) == \/ \E k \in 1 .. Len(left) : left[k].id = id
                   \/ \E k \in 1 .. Len(staged) : staged[k].id = id
  IN  SelectSeq(order, waits)

\* The tick of poll_one on the merged working set: is_ready on every
\* request (each call locks and unlocks mtx), callbacks for the ready
\* requests, erase, warning.
Tick(r, L0, work) ==
  CHOOSE after \in
    {[L1 EXCEPT !.work = AfterWarning(left), !.warn = Warns(left),
                !.rdy = StillReady(L1.rdy, left, L1.reqs)] :
       L1 \in {Callbacks(r, IF work = <<>> THEN L0 ELSE Unlock(Lock(L0)),
                          ready, 1, Len(ready)) : ready \in {ReadyPart(L0, work)}},
       left \in {Kept(L0, work)}} : TRUE

\* A poll_one that iterates over the staging list as well.
IteratedWithStaged(L) == L.work \o L.reqs

\* The range poll_one partitions and iterates over, outside the lock:
\* requests_to_process.
Iterated(L) == L.work

\* A poll_one that inserts the staging list at the front of the working set.
poll_oneStagedFirst(r, L) ==
  CHOOSE after \in
    {Tick(r, L0, L0.work) :
       L0 \in {Unlock([Lock(L) EXCEPT !.work = L.reqs \o L.work,
                                      !.reqs = <<>>])}} : TRUE

\* A poll_one that does not clear the staging list.
MergeKeepStaged(L) == Unlock([Lock(L) EXCEPT !.work = L.work \o L.reqs])

\* The locked block at the head of poll_one: the staging list is inserted
\* at the end of the working set and cleared.
Merge(L) == Unlock([Lock(L) EXCEPT !.work = L.work \o L.reqs, !.reqs = <<>>])

\* MpiTreeClient::poll_one, one tick: move the staging list to the end of
\* the working set, then run the tick on it.
poll_one(r, L) ==
  CHOOSE after \in {Tick(r, L0, Iterated(L0)) : L0 \in {Merge(L)}} : TRUE

\* A post that schedules nothing.
postNone(n) == n

\* MpiTreeClient::post: one more poll_one handler on the io_service queue.
post(n) == n + 1

\* ---------------------------------------------------------------- transport
\* The results (MPI_Test's, MPI_Get_count's) an operation may complete
\* with: success, or an error of either call while faults remain.
Outcome(t, c) ==
  /\ t \/ c
  /\ (t /\ c) \/ nfaults < MaxFaults
  /\ nfaults' = IF t /\ c THEN nfaults ELSE nfaults + 1

\* Ids of the pending operations of a kind at rank r.
PendingOps(r, kind) ==
  {i \in 1 .. Len(ops[r]) : ops[r][i].kind = kind /\ ops[r][i].st = "pending"}

\* The least element of a non-empty set of ids.
Oldest(S) == CHOOSE i \in S : \A j \in S : i <= j

\* seq without its j-th element.
Without(seq, j) == SubSeq(seq, 1, j - 1) \o SubSeq(seq, j + 1, Len(seq))

\* The transport completes send i of rank r (the message has left the send
\* buffer; standard-mode MPI_Isend does not wait for the receiver).
MpiSendCompletes(r, i, t, c) ==
  /\ i \in PendingOps(r, "send")
  /\ Outcome(t, c)
  /\ ops' = [ops EXCEPT ![r][i] = [@ EXCEPT !.st = "done", !.test = t, !.cnt = c]]
  /\ ready_order' = [ready_order EXCEPT ![r] = Append(@, i)]
  /\ UNCHANGED <<count, hostVars, loopVars, children_ret, parent_ret, handlers, requests, requests_to_process, buffer, msgs,
                 cbLog, hlog, sent, bcast, warned, nsends, ninbound, mtx, sized, unheard>>

\* The transport matches message j of msgs[r] (the first one of its source:
\* MPI does not reorder messages of one sender) with the oldest receive
\* posted at rank r, writes it to the buffer and completes the receive.
MpiRecvCompletes(r, j, t, c) ==
  /\ PendingOps(r, "recv") # {}
  /\ j \in 1 .. Len(msgs[r])
  /\ \A k \in 1 .. (j - 1) : msgs[r][k].src # msgs[r][j].src
  /\ Len(msgs[r][j].data) <= ops[r][Oldest(PendingOps(r, "recv"))].cap
  /\ Outcome(t, c)
  /\ LET i == Oldest(PendingOps(r, "recv"))
         m == msgs[r][j]
     IN  /\ ops' = [ops EXCEPT ![r][i] =
                      [@ EXCEPT !.st = "done", !.test = t, !.cnt = c,
                                !.source = m.src, !.size = Len(m.data),
                                !.data = m.data]]
         /\ buffer' = [buffer EXCEPT ![r] =
                         m.data \o SubSeq(@, Len(m.data) + 1, Len(@))]
         /\ ready_order' = [ready_order EXCEPT ![r] = Append(@, i)]
         /\ unheard' = [unheard EXCEPT ![r] =
                          IF handlers[r] = <<>> THEN @ \cup {i} ELSE @]
  /\ msgs' = [msgs EXCEPT ![r] = Without(@, j)]
  /\ UNCHANGED <<count, hostVars, loopVars, children_ret, parent_ret, handlers, requests, requests_to_process,
                 cbLog, hlog, sent, bcast, warned, nsends, ninbound, mtx, sized>>

\* ------------------------------------------------------------------ actions
\* Rank q has made no call yet.  In Spec one rank runs the waypoint and the
\* other ranks are its peers, seen through the transport only.
Idle(q) == ops[q] = <<>> /\ handlers[q] = <<>> /\ bcast[q] = <<>>

\* No rank other than r has made a call.
Alone(r) == \A q \in Ranks \ {r} : Idle(q)

\* The ranks a message for rank r can come from: its parent and children
\* (the only destinations async_send_to_parent / _children address).
Peers(r, n) ==
  {q \in 0 .. (n - 1) : q # r /\ (parent(r) = q \/ parent(q) = r)}

\* A caller sizes the receive buffer of rank r, as one of at most limit
\* such calls.
SetBufferSizeWithin(r, limit) ==
  /\ r < count
  /\ sized[r] < limit
  /\ \E L \in {set_buffer_size(Local(r), MaxPacketSize)} : Store(r, L)
  /\ UNCHANGED <<count, hostVars, loopVars, children_ret, parent_ret, nsends, ninbound, nfaults>>

\* A caller sizes the receive buffer of rank r (once, before traffic).
SetBufferSize(r) == SetBufferSizeWithin(r, 1)

\* A caller registers one more handler at rank r, up to limit handlers.
RegisterWithin(r, limit) ==
  /\ r < count
  /\ Len(handlers[r]) < limit
  /\ \E L \in {register_receive_handler(Local(r), Len(handlers[r]) + 1)} : Store(r, L)
  /\ UNCHANGED <<count, hostVars, loopVars, children_ret, parent_ret, nsends, ninbound, nfaults>>

\* A caller registers one more handler at rank r.
RegisterReceiveHandler(r) == RegisterWithin(r, MaxHandlers)

\* A caller registers the replying handler at rank r, as its first handler.
RegisterReplier(r) ==
  /\ r < count
  /\ handlers[r] = <<>>
  /\ \E L \in {register_receive_handler(Local(r), ReplyingHandler)} : Store(r, L)
  /\ UNCHANGED <<count, hostVars, loopVars, children_ret, parent_ret, nsends, ninbound, nfaults>>

\* A caller at rank r sends data to the parent, as one of at most limit
\* send calls.
AsyncSendToParentWithin(r, data, limit) ==
  /\ r < count
  /\ nsends < limit
  /\ nsends' = nsends + 1
  /\ \E L \in {async_send_to_parent(r, Local(r), data)} : Store(r, L)
  /\ UNCHANGED <<count, hostVars, loopVars, children_ret, parent_ret, ninbound, nfaults>>

\* A caller at rank r sends data to the parent.
AsyncSendToParent(r, data) == AsyncSendToParentWithin(r, data, MaxSends)

\* A caller at rank r sends data to the children.
AsyncSendToChildren(r, data) ==
  /\ r < count
  /\ nsends < MaxSends
  /\ nsends' = nsends + 1
  /\ \E L \in {async_send_to_children(r, Local(r), count, data)} : Store(r, L)
  /\ UNCHANGED <<count, hostVars, loopVars, children_ret, parent_ret, ninbound, nfaults>>

\* No call of received() is under way.
NoDispatch == [op |-> 0, to_call |-> <<>>, i |-> 0]

\* The process of rank r has not been aborted by a failed assert.
Running(r) == ~assert_failed[r]

\* The io_service of rank r has a poll_one to run and is not inside one.
Queued(r) == Running(r) /\ pc[r] = "idle" /\ posted[r] > 0

\* A poll_one whose assert is compiled out.
AssertHoldsAlways(r, th) == TRUE

\* assert(*main_thread_id == boost::this_thread::get_id()) on thread th.
AssertHolds(r, th) == main_thread_id[r] \in {"none", th}

\* The head of poll_one on thread th: the first caller becomes the main
\* thread.
Entered(r, th) ==
  /\ main_thread_id' = [main_thread_id EXCEPT ![r] = IF @ = "none" THEN th ELSE @]
  /\ poll_thread' = [poll_thread EXCEPT ![r] = th]

\* The io_service runs the posted poll_one of rank r.
PollOne(r) ==
  /\ r < count
  /\ Queued(r)
  /\ AssertHolds(r, "loop")
  /\ Entered(r, "loop")
  /\ posted' = [posted EXCEPT ![r] = post(@ - 1)]
  /\ \E L \in {poll_one(r, Local(r))} : Store(r, L)
  /\ UNCHANGED <<count, disp, hostVars, assert_failed, pc, children_ret, parent_ret,
                 nsends, ninbound, nfaults>>

\* What peer q sends to rank r: down from a parent, up from a child.
PeerPayload(r, q) == IF q = parent(r) THEN DownPayload(q) ELSE UpPayload(q)

\* A peer q of rank r has sent data to r (the peer's own MPI_Isend), as one
\* of at most limit messages.
PeerSendsWithin(r, q, limit) ==
  /\ r < count
  /\ q \in Peers(r, count)
  /\ PendingOps(r, "recv") # {}
  /\ ninbound < limit
  /\ ninbound' = ninbound + 1
  /\ msgs' = [msgs EXCEPT ![r] = Append(@, [src |-> q, data |-> PeerPayload(r, q)])]
  /\ UNCHANGED <<count, hostVars, loopVars, children_ret, parent_ret, handlers, requests,
                 requests_to_process, buffer, ops, cbLog, hlog, sent, bcast,
                 warned, nsends, nfaults, ready_order, mtx, sized, unheard>>

\* A peer q of rank r has sent data to r.
PeerSends(r, q) == PeerSendsWithin(r, q, MaxInbound)

\* The most requests one rank can have started (a first receive, one more
\* per message received, two per send call), and the most messages that
\* can wait for one rank.
MaxOps == 1 + MaxInbound + 3 * MaxSends
MaxMsgs == MaxInbound + 2 * MaxSends

\* ------------------------------------------------------------ specification
\* A constructor that arms a receive at every rank of the run.
InitRankArmed ==
  /\ handlers = [r \in Ranks |-> <<>>]
  /\ requests = [r \in Ranks |-> IF r < count THEN <<MpiRequest(1, "received", 0)>> ELSE <<>>]
  /\ requests_to_process = [r \in Ranks |-> <<>>]
  /\ buffer = [r \in Ranks |-> <<>>]
  /\ ops = [r \in Ranks |-> IF r < count THEN <<IrecvOp>> ELSE <<>>]
  /\ msgs = [r \in Ranks |-> <<>>]
  /\ cbLog = [r \in Ranks |-> <<>>]
  /\ hlog = [r \in Ranks |-> <<>>]
  /\ sent = [r \in Ranks |-> <<>>]
  /\ bcast = [r \in Ranks |-> <<>>]
  /\ warned = [r \in Ranks |-> FALSE]
  /\ nsends = 0
  /\ ninbound = 0
  /\ nfaults = 0
  /\ children_ret = [r \in Ranks |-> <<>>]
  /\ parent_ret = [r \in Ranks |-> <<>>]
  /\ ready_order = [r \in Ranks |-> <<>>]
  /\ mtx = [r \in Ranks |-> [lk |-> 0, stuck |-> FALSE]]
  /\ sized = [r \in Ranks |-> 0]
  /\ unheard = [r \in Ranks |-> {}]

\* After construction of the MpiTreeClient of every rank: nothing submitted.
InitRank ==
  /\ handlers = [r \in Ranks |-> <<>>]
  /\ requests = [r \in Ranks |-> <<>>]
  /\ requests_to_process = [r \in Ranks |-> <<>>]
  /\ buffer = [r \in Ranks |-> <<>>]
  /\ ops = [r \in Ranks |-> <<>>]
  /\ msgs = [r \in Ranks |-> <<>>]
  /\ cbLog = [r \in Ranks |-> <<>>]
  /\ hlog = [r \in Ranks |-> <<>>]
  /\ sent = [r \in Ranks |-> <<>>]
  /\ bcast = [r \in Ranks |-> <<>>]
  /\ warned = [r \in Ranks |-> FALSE]
  /\ nsends = 0
  /\ ninbound = 0
  /\ nfaults = 0
  /\ children_ret = [r \in Ranks |-> <<>>]
  /\ parent_ret = [r \in Ranks |-> <<>>]
  /\ ready_order = [r \in Ranks |-> <<>>]
  /\ mtx = [r \in Ranks |-> [lk |-> 0, stuck |-> FALSE]]
  /\ sized = [r \in Ranks |-> 0]
  /\ unheard = [r \in Ranks |-> {}]

\* TreeWaypoint::get_instance has constructed the MpiTreeClient of every
\* rank of the run; each constructor has posted the first poll_one.
Constructed ==
  /\ use_mpi = TRUE
  /\ instances = [r \in Ranks |-> IF r < count THEN 1 ELSE 0]
  /\ got = [r \in Ranks |-> <<>>]
  /\ posted = [r \in Ranks |-> IF r < count THEN 1 ELSE 0]
  /\ main_thread_id = [r \in Ranks |-> "none"]
  /\ poll_thread = [r \in Ranks |-> "none"]
  /\ assert_failed = [r \in Ranks |-> FALSE]
  /\ pc = [r \in Ranks |-> "idle"]
  /\ disp = [r \in Ranks |-> NoDispatch]

Init ==
  /\ count \in 1 .. MaxNodes
  /\ InitRank
  /\ Constructed

\* One waypoint, its callers, its poller and the transport.
Next ==
  \/ \E r \in Ranks : Alone(r) /\ SetBufferSize(r)
  \/ \E r \in Ranks : Alone(r) /\ RegisterReceiveHandler(r)
  \/ \E r \in Ranks : Alone(r) /\ AsyncSendToParent(r, UpPayload(r))
  \/ \E r \in Ranks : Alone(r) /\ AsyncSendToChildren(r, DownPayload(r))
  \/ \E r \in Ranks : ~Idle(r) /\ PollOne(r)
  \/ \E r \in Ranks, q \in Ranks : PeerSends(r, q)
  \/ \E r \in Ranks, i \in 1 .. MaxOps, t \in BOOLEAN, c \in BOOLEAN :
       MpiSendCompletes(r, i, t, c)
  \/ \E r \in Ranks, j \in 1 .. MaxMsgs, t \in BOOLEAN, c \in BOOLEAN :
       MpiRecvCompletes(r, j, t, c)

Spec == Init /\ [][Next]_vars

\* ------------------------------------------------------- the whole cluster
\* A rank whose caller has registered its handlers and sized the buffer, and
\* whose poller has run once: the state every rank is in when traffic starts.
RECURSIVE Registered(_, _)
Registered(L, n) ==
  IF n = 0 THEN L
  ELSE register_receive_handler(Registered(L, n - 1), n)

\* The fields of a MpiTreeClient just constructed.
Fresh ==
  [reqs |-> <<>>, work |-> <<>>, ops |-> <<>>, cb |-> <<>>, hl |-> <<>>,
   sent |-> <<>>, bc |-> <<>>, hs |-> <<>>, buf |-> <<>>, warn |-> FALSE,
   out |-> <<>>, rdy |-> <<>>, lk |-> 0, stuck |-> FALSE, sized |-> 0,
   unheard |-> {}]

StartedUp(r) ==
  poll_one(r, set_buffer_size(Registered(Fresh, MaxHandlers), MaxPacketSize))

\* Every rank of the run has started up; no send was made yet.
InitCluster ==
  /\ count \in 1 .. MaxNodes
  /\ handlers = [r \in Ranks |-> IF r < count THEN StartedUp(r).hs ELSE <<>>]
  /\ requests = [r \in Ranks |-> IF r < count THEN StartedUp(r).reqs ELSE <<>>]
  /\ requests_to_process =
       [r \in Ranks |-> IF r < count THEN StartedUp(r).work ELSE <<>>]
  /\ buffer = [r \in Ranks |-> IF r < count THEN StartedUp(r).buf ELSE <<>>]
  /\ ops = [r \in Ranks |-> IF r < count THEN StartedUp(r).ops ELSE <<>>]
  /\ msgs = [r \in Ranks |-> <<>>]
  /\ cbLog = [r \in Ranks |-> <<>>]
  /\ hlog = [r \in Ranks |-> <<>>]
  /\ sent = [r \in Ranks |-> <<>>]
  /\ bcast = [r \in Ranks |-> <<>>]
  /\ warned = [r \in Ranks |-> FALSE]
  /\ nsends = 0
  /\ ninbound = 0
  /\ nfaults = 0
  /\ children_ret = [r \in Ranks |-> <<>>]
  /\ parent_ret = [r \in Ranks |-> <<>>]
  /\ ready_order = [r \in Ranks |-> <<>>]
  /\ mtx = [r \in Ranks |-> [lk |-> 0, stuck |-> FALSE]]
  /\ sized = [r \in Ranks |-> IF r < count THEN StartedUp(r).sized ELSE 0]
  /\ unheard = [r \in Ranks |-> {}]
  /\ use_mpi = TRUE
  /\ instances = [r \in Ranks |-> IF r < count THEN 1 ELSE 0]
  /\ got = [r \in Ranks |-> <<>>]
  /\ posted = [r \in Ranks |-> IF r < count THEN 1 ELSE 0]
  /\ main_thread_id = [r \in Ranks |-> IF r < count THEN "loop" ELSE "none"]
  /\ poll_thread = [r \in Ranks |-> IF r < count THEN "loop" ELSE "none"]
  /\ assert_failed = [r \in Ranks |-> FALSE]
  /\ pc = [r \in Ranks |-> "idle"]
  /\ disp = [r \in Ranks |-> NoDispatch]

\* Every rank runs the waypoint; messages travel from rank to rank.
NextCluster ==
  \/ \E r \in Ranks : AsyncSendToParent(r, UpPayload(r))
  \/ \E r \in Ranks : AsyncSendToChildren(r, DownPayload(r))
  \/ \E r \in Ranks : PollOne(r)
  \/ \E r \in Ranks, i \in 1 .. MaxOps, t \in BOOLEAN, c \in BOOLEAN :
       MpiSendCompletes(r, i, t, c)
  \/ \E r \in Ranks, j \in 1 .. MaxMsgs, t \in BOOLEAN, c \in BOOLEAN :
       MpiRecvCompletes(r, j, t, c)

SpecCluster == InitCluster /\ [][NextCluster]_vars

\* ------------------------------------------------------------ backpressure
\* n consecutive calls of async_send_to_parent at rank r (folded in two
\* halves to keep the evaluation shallow).
RECURSIVE Burst(_, _, _)
Burst(r, L, n) ==
  IF n = 0 THEN L
  ELSE IF n = 1 THEN async_send_to_parent(r, L, UpPayload(r))
  ELSE CHOOSE after \in
         {Burst(r, L1, n - (n \div 2)) : L1 \in {Burst(r, L, n \div 2)}} : TRUE

\* A caller at rank r submits n sends in a row, as its first calls.
SubmitBurst(r, n) ==
  /\ r < count
  /\ ops[r] = <<>>
  /\ \E L \in {Burst(r, Local(r), n)} : Store(r, L)
  /\ UNCHANGED <<count, hostVars, loopVars, children_ret, parent_ret, nsends, ninbound, nfaults>>

\* A stalled transport lets the sends of rank r trickle out: it completes
\* the first Trickle of them one by one, in the order they were started;
\* the first MaxFaults of them may complete with an error.
MpiOldestSendCompletes(r, t, c) ==
  /\ PendingOps(r, "send") # {}
  /\ Oldest(PendingOps(r, "send")) <= Trickle
  /\ t \/ c
  /\ (t /\ c) \/ Oldest(PendingOps(r, "send")) <= MaxFaults
  /\ ops' = [ops EXCEPT ![r][Oldest(PendingOps(r, "send"))] =
               [@ EXCEPT !.st = "done", !.test = t, !.cnt = c]]
  /\ ready_order' = [ready_order EXCEPT ![r] =
                       Append(@, Oldest(PendingOps(r, "send")))]
  /\ UNCHANGED <<count, hostVars, loopVars, children_ret, parent_ret, handlers, requests, requests_to_process, buffer, msgs,
                 cbLog, hlog, sent, bcast, warned, nsends, ninbound, nfaults, mtx, sized, unheard>>

\* The transport recovers: every send of rank r still pending completes.
MpiPendingSendsComplete(r) ==
  /\ PendingOps(r, "send") # {}
  /\ ops' = [ops EXCEPT ![r] =
               [i \in 1 .. Len(@) |->
                  IF @[i].kind = "send" /\ @[i].st = "pending"
                  THEN [@[i] EXCEPT !.st = "done"] ELSE @[i]]]
  /\ ready_order' = [ready_order EXCEPT ![r] =
                       LET pnd(i) == i \in PendingOps(r, "send")
                       IN  @ \o SelectSeq([i \in 1 .. Len(ops[r]) |-> i], pnd)]
  /\ UNCHANGED <<count, hostVars, loopVars, children_ret, parent_ret, handlers, requests, requests_to_process, buffer, msgs,
                 cbLog, hlog, sent, bcast, warned, nsends, ninbound, nfaults, mtx, sized, unheard>>

\* Two ranks; rank 1 is the waypoint under load.
InitBP ==
  /\ count = 2
  /\ InitRank
  /\ Constructed

NextBP ==
  \/ \E n \in {1, MaxBurst} : SubmitBurst(1, n)
  \/ AsyncSendToParent(1, UpPayload(1))
  \/ \E t \in BOOLEAN, c \in BOOLEAN : MpiOldestSendCompletes(1, t, c)
  \/ MpiPendingSendsComplete(1)
  \/ PollOne(1)

SpecBP == InitBP /\ [][NextBP]_vars

\* post() reschedules poll_one at the end of every tick, and the io_service
\* runs what was posted: ticks keep coming.
FairSpecBP == SpecBP /\ WF_vars(PollOne(1))

\* ------------------------------------------------------------------ inbound
\* Four ranks; rank 1 is the receiving waypoint, with its parent (rank 0)
\* and its child (rank 3) as peers.  Handlers are registered while messages
\* arrive, and set_buffer_size may be called again.
InitInbound ==
  /\ count = 4
  /\ InitRank
  /\ Constructed

NextInbound ==
  \/ SetBufferSizeWithin(1, MaxSized)
  \/ RegisterWithin(1, MaxRegistered)
  \/ PollOne(1)
  \/ \E q \in Ranks : PeerSendsWithin(1, q, MaxReceived)
  \/ \E j \in 1 .. MaxReceived, t \in BOOLEAN, c \in BOOLEAN :
       MpiRecvCompletes(1, j, t, c)

SpecInbound == InitInbound /\ [][NextInbound]_vars

\* -------------------------------------------------------------- event loop
\* The io_service takes the posted poll_one of rank r off its queue and
\* runs its locked block: thread check, merge of the staging list.
PollMerge(r) ==
  /\ r < count
  /\ Queued(r)
  /\ AssertHolds(r, "loop")
  /\ Entered(r, "loop")
  /\ posted' = [posted EXCEPT ![r] = @ - 1]
  /\ pc' = [pc EXCEPT ![r] = "process"]
  /\ \E L \in {Merge(Local(r))} : Store(r, L)
  /\ UNCHANGED <<count, disp, hostVars, assert_failed, children_ret, parent_ret,
                 nsends, ninbound, nfaults>>

\* The rest of that poll_one, outside the lock: test, callbacks, erase,
\* warning, and the post of the next poll_one.
PollProcess(r) ==
  /\ r < count
  /\ Running(r)
  /\ pc[r] = "process"
  /\ posted' = [posted EXCEPT ![r] = post(@)]
  /\ pc' = [pc EXCEPT ![r] = "idle"]
  /\ \E L \in {Tick(r, Local(r), Iterated(Local(r)))} : Store(r, L)
  /\ UNCHANGED <<count, disp, hostVars, main_thread_id, poll_thread, assert_failed,
                 children_ret, parent_ret, nsends, ninbound, nfaults>>

\* A get_instance that constructs a new object at every call.
get_instanceFresh(mpi, made) ==
  IF mpi
  THEN [made |-> made + 1, ret |-> made + 1, thrown |-> FALSE]
  ELSE [made |-> made, ret |-> 0, thrown |-> TRUE]

\* TreeWaypoint::get_instance: with USE_MPI the function-local static is
\* constructed by the first call and every call returns its address (ret
\* numbers the object returned); without USE_MPI it logs an error and throws.
get_instance(mpi, made) ==
  IF mpi
  THEN [made |-> IF made = 0 THEN 1 ELSE made,
        ret |-> IF made = 0 THEN 1 ELSE made, thrown |-> FALSE]
  ELSE [made |-> made, ret |-> 0, thrown |-> TRUE]

\* Calls of get_instance per process (SpecLoop).
MaxGets == 3

\* A caller in the process of rank r calls TreeWaypoint::get_instance; a
\* constructor that runs posts the first poll_one.
GetInstance(r) ==
  /\ r < count
  /\ Len(got[r]) < MaxGets
  /\ \E g \in {get_instance(use_mpi, instances[r])} :
       /\ instances' = [instances EXCEPT ![r] = g.made]
       /\ got' = [got EXCEPT ![r] = Append(@, [inst |-> g.ret, thrown |-> g.thrown])]
       /\ posted' = [posted EXCEPT ![r] =
                       IF g.made > instances[r] THEN post(@) ELSE @]
  /\ UNCHANGED <<count, disp, use_mpi, main_thread_id, poll_thread, assert_failed, pc,
                 handlers, requests, requests_to_process, buffer, ops, msgs,
                 cbLog, hlog, sent, bcast, warned, nsends, ninbound, nfaults,
                 children_ret, parent_ret, ready_order, mtx, sized, unheard>>

\* The process of rank r holds its Waypoint.
Has(r) == instances[r] > 0

\* Two processes, built with or without MPI; nothing is constructed until
\* get_instance is called.
InitLoop ==
  /\ count = 2
  /\ InitRank
  /\ use_mpi \in BOOLEAN
  /\ instances = [r \in Ranks |-> 0]
  /\ got = [r \in Ranks |-> <<>>]
  /\ posted = [r \in Ranks |-> 0]
  /\ main_thread_id = [r \in Ranks |-> "none"]
  /\ poll_thread = [r \in Ranks |-> "none"]
  /\ assert_failed = [r \in Ranks |-> FALSE]
  /\ pc = [r \in Ranks |-> "idle"]
  /\ disp = [r \in Ranks |-> NoDispatch]

NextLoop ==
  \/ \E r \in Ranks : GetInstance(r)
  \/ \E r \in Ranks : PollMerge(r)
  \/ \E r \in Ranks : PollProcess(r)
  \/ \E r \in Ranks : Has(r) /\ AsyncSendToParent(r, UpPayload(r))
  \/ \E r \in Ranks, i \in 1 .. MaxOps, t \in BOOLEAN, c \in BOOLEAN :
       MpiSendCompletes(r, i, t, c)

SpecLoop == InitLoop /\ [][NextLoop]_vars

\* The io_service of each process runs the handlers posted to it.
FairSpecLoop ==
  /\ SpecLoop
  /\ \A r \in 0 .. 1 : WF_vars(PollMerge(r)) /\ WF_vars(PollProcess(r))

\* ------------------------------------------------------------------ threads
\* Send calls of the caller thread, messages from the peers, and poll_one
\* handlers that may be queued at once (SpecThreads).
MaxSubmitted == 2
MaxArriving == 1
MaxQueued == 2

\* Requests rank 1 can have started in SpecThreads: the first receive, one
\* more per message, the caller's sends and one reply per message.
MaxThreadOps == 1 + 2 * MaxArriving + MaxSubmitted

\* The queued poll_one of rank r starts on the io_service thread after
\* another thread was recorded as the main thread: the assert fails and the
\* process is aborted.
PollAssertFails(r) ==
  /\ r < count
  /\ Queued(r)
  /\ ~AssertHolds(r, "loop")
  /\ Entered(r, "loop")
  /\ posted' = [posted EXCEPT ![r] = @ - 1]
  /\ assert_failed' = [assert_failed EXCEPT ![r] = TRUE]
  /\ UNCHANGED <<count, disp, hostVars, pc, rankVars, children_ret, parent_ret,
                 nsends, ninbound, nfaults>>

\* Thread th, not the io_service's, calls poll_one of rank r itself.  If it
\* is the first to do so it becomes the main thread and its poll_one runs
\* to the end, post included; otherwise the assert fails.
DirectPollOne(r, th) ==
  /\ r < count
  /\ Running(r)
  /\ posted[r] < MaxQueued
  /\ Entered(r, th)
  /\ IF AssertHolds(r, th)
     THEN /\ posted' = [posted EXCEPT ![r] = post(@)]
          /\ \E L \in {poll_one(r, Local(r))} : Store(r, L)
          /\ UNCHANGED assert_failed
     ELSE /\ assert_failed' = [assert_failed EXCEPT ![r] = TRUE]
          /\ UNCHANGED <<posted, rankVars>>
  /\ UNCHANGED <<count, disp, hostVars, pc, children_ret, parent_ret,
                 nsends, ninbound, nfaults>>

\* Four ranks; rank 1 is the waypoint, with the io_service thread and a
\* caller thread; its parent (rank 0) and its child (rank 3) are peers.
InitThreads ==
  /\ count = 4
  /\ InitRank
  /\ Constructed

NextThreads ==
  \/ Running(1) /\ SetBufferSize(1)
  \/ Running(1) /\ RegisterReplier(1)
  \/ Running(1) /\ AsyncSendToParentWithin(1, UpPayload(1), MaxSubmitted)
  \/ PollMerge(1)
  \/ PollProcess(1)
  \/ PollAssertFails(1)
  \/ DirectPollOne(1, "caller")
  \/ \E q \in Ranks : Running(1) /\ PeerSendsWithin(1, q, MaxArriving)
  \/ \E j \in 1 .. MaxArriving : Running(1) /\ MpiRecvCompletes(1, j, TRUE, TRUE)
  \/ \E i \in 1 .. MaxThreadOps : Running(1) /\ MpiSendCompletes(1, i, TRUE, TRUE)

SpecThreads == InitThreads /\ [][NextThreads]_vars

\* ----------------------------------------------------------------- dispatch
\* received() step by step, with a caller thread that registers handlers
\* while the polling thread is inside it.
\*
\* The tick under way at rank r has one request to look at, a receive that
\* is_ready finds complete with success: poll_one will call received(true).
DispatchReady(r) ==
  /\ pc[r] = "process"
  /\ Len(requests_to_process[r]) = 1
  /\ requests_to_process[r][1].cb = "received"
  /\ is_ready(Local(r), requests_to_process[r][1])
  /\ CallbackOk(Tested(Local(r), requests_to_process[r][1]))

\* A received() that arms the next receive before it calls the handlers.
ReceivedEntersArmed(L, req) ==
  set_recv(parentLocked(Unlock(Lock(
    [L EXCEPT !.cb = Append(@, [op |-> req.id, ok |-> CallbackOk(req),
                                size |-> req.size, sender |-> req.sender,
                                late |-> Overtaken(L.rdy, req.id),
                                held |-> L.lk])]))))

\* poll_one invokes the callback of request req (as in Callback) and
\* received() runs up to its loops: lock, copy of handlers, unlock, parent().
ReceivedEnters(L, req) ==
  parentLocked(Unlock(Lock(
    [L EXCEPT !.cb = Append(@, [op |-> req.id, ok |-> CallbackOk(req),
                                size |-> req.size, sender |-> req.sender,
                                late |-> Overtaken(L.rdy, req.id),
                                held |-> L.lk])])))

\* The polling thread of rank r enters received(true) for the ready receive
\* and takes its snapshot to_call of the handlers.
ReceivedSnapshot(r) ==
  /\ r < count
  /\ Running(r)
  /\ DispatchReady(r)
  /\ pc' = [pc EXCEPT ![r] = "dispatch"]
  /\ disp' = [disp EXCEPT ![r] =
                [op |-> requests_to_process[r][1].id, to_call |-> handlers[r],
                 i |-> 1]]
  /\ \E L \in {ReceivedEnters(Unlock(Lock(Local(r))),
                              Tested(Local(r), requests_to_process[r][1]))} :
       Store(r, L)
  /\ UNCHANGED <<count, hostVars, posted, main_thread_id, poll_thread,
                 assert_failed, children_ret, parent_ret, nsends, ninbound,
                 nfaults>>

\* The call record of entry point i of received() at rank r, for handler h.
DispatchCall(r, h) ==
  LET req == Tested(Local(r), requests_to_process[r][1])
      ep == EntryPoint(r, req.sender)
  IN  [op |-> req.id, entry |-> ep, h |-> h,
       data |-> SubSeq(buffer[r], 1, HandlerSize(Local(r), req)),
       size |-> HandlerSize(Local(r), req),
       sender |-> IF ep = "child" THEN req.sender ELSE -1]

\* The bound of the loops of received(): handlers.size(), read from the
\* member at every iteration, without the lock.
LoopBound(r) == Len(handlers[r])

\* One iteration of the loop of received(): i is below the bound and
\* to_call[i] exists; its entry point is invoked and returns.
ReceivedCalls(r) ==
  /\ r < count
  /\ pc[r] = "dispatch"
  /\ disp[r].i <= LoopBound(r)
  /\ disp[r].i <= Len(disp[r].to_call)
  /\ hlog' = [hlog EXCEPT ![r] =
                Append(@, DispatchCall(r, disp[r].to_call[disp[r].i]))]
  /\ disp' = [disp EXCEPT ![r].i = @ + 1]
  /\ UNCHANGED <<count, hostVars, posted, main_thread_id, poll_thread,
                 assert_failed, pc, children_ret, parent_ret, nsends, ninbound,
                 nfaults, handlers, requests, requests_to_process, buffer, ops,
                 msgs, cbLog, sent, bcast, warned, ready_order, mtx, sized, unheard>>

\* What stands for the handler a call through to_call[i] reaches when i is
\* past the end of to_call.
StrayHandler == -1

\* One iteration of the loop with i below the bound and past the end of
\* to_call: operator[] out of range is undefined; the process is killed by
\* the wild call, or the call goes somewhere and the loop carries on.
ReceivedPastEnd(r, outcome) ==
  /\ r < count
  /\ pc[r] = "dispatch"
  /\ disp[r].i <= LoopBound(r)
  /\ disp[r].i > Len(disp[r].to_call)
  /\ IF outcome = "crash"
     THEN /\ pc' = [pc EXCEPT ![r] = "crashed"]
          /\ UNCHANGED <<hlog, disp>>
     ELSE /\ hlog' = [hlog EXCEPT ![r] =
                        Append(@, DispatchCall(r, StrayHandler))]
          /\ disp' = [disp EXCEPT ![r].i = @ + 1]
          /\ UNCHANGED pc
  /\ UNCHANGED <<count, hostVars, posted, main_thread_id, poll_thread,
                 assert_failed, children_ret, parent_ret, nsends, ninbound,
                 nfaults, handlers, requests, requests_to_process, buffer, ops,
                 msgs, cbLog, sent, bcast, warned, ready_order, mtx, sized, unheard>>

\* The loop of received() is over: set_recv re-arms the receive, received()
\* returns, and poll_one erases the consumed request, checks the size of
\* the working set and posts the next poll_one.
ReceivedReturns(r) ==
  /\ r < count
  /\ pc[r] = "dispatch"
  /\ disp[r].i > LoopBound(r)
  /\ posted' = [posted EXCEPT ![r] = post(@)]
  /\ pc' = [pc EXCEPT ![r] = "idle"]
  /\ disp' = [disp EXCEPT ![r] = NoDispatch]
  /\ \E L \in {[L1 EXCEPT !.work = AfterWarning(left), !.warn = Warns(left),
                          !.rdy = StillReady(L1.rdy, left, L1.reqs)] :
                 L1 \in {Rearm(Local(r), TRUE)},
                 left \in {Kept(Local(r), requests_to_process[r])}} :
       Store(r, L)
  /\ UNCHANGED <<count, hostVars, main_thread_id, poll_thread, assert_failed,
                 children_ret, parent_ret, nsends, ninbound, nfaults>>

\* A wild call has killed the process of rank r.
Crashed(r) == pc[r] = "crashed"

\* Four ranks; rank 1 receives from its parent and its child while a caller
\* thread registers handlers.
InitDispatch ==
  /\ count = 4
  /\ InitRank
  /\ Constructed

NextDispatch ==
  \/ ~Crashed(1) /\ SetBufferSize(1)
  \/ ~Crashed(1) /\ RegisterWithin(1, MaxRegistered)
  \/ \E q \in Ranks : PeerSendsWithin(1, q, MaxReceived)
  \/ \E j \in 1 .. MaxReceived, t \in BOOLEAN, c \in BOOLEAN :
       MpiRecvCompletes(1, j, t, c)
  \/ PollMerge(1)
  \/ ~DispatchReady(1) /\ PollProcess(1)
  \/ ReceivedSnapshot(1)
  \/ ReceivedCalls(1)
  \/ \E outcome \in {"crash", "stray"} : ReceivedPastEnd(1, outcome)
  \/ ReceivedReturns(1)

SpecDispatch == InitDispatch /\ [][NextDispatch]_vars

\* ----------------------------------------------------------------- topology
\* A caller asks rank r for its children (children_ret[r] holds the vector
\* returned by the first call; children() reads no state but the comm size).
Children(r) ==
  /\ r < count
  /\ children_ret[r] = <<>>
  /\ children_ret' = [children_ret EXCEPT ![r] = <<children(r, count)>>]
  /\ UNCHANGED <<count, handlers, requests, requests_to_process, buffer, ops,
                 msgs, cbLog, hlog, sent, bcast, warned, nsends, ninbound,
                 nfaults, parent_ret, ready_order, hostVars, loopVars, mtx, sized, unheard>>

\* A caller asks rank r for its parent.
Parent(r) ==
  /\ r < count
  /\ parent_ret[r] = <<>>
  /\ parent_ret' = [parent_ret EXCEPT ![r] = <<parent(r)>>]
  /\ UNCHANGED <<count, handlers, requests, requests_to_process, buffer, ops,
                 msgs, cbLog, hlog, sent, bcast, warned, nsends, ninbound,
                 nfaults, children_ret, ready_order, hostVars, loopVars, mtx, sized, unheard>>

\* The ranks of a run of any size up to MaxNodes answer topology queries.
NextTopology ==
  \/ \E r \in Ranks : Children(r)
  \/ \E r \in Ranks : Parent(r)

SpecTopology == Init /\ [][NextTopology]_vars

\* ================================================================== claims
\* The requests of rank r still in the ledger: staging list and working set.
Ledger(r) == requests_to_process[r] \o requests[r]

\* The ids of the requests in a list.
Ids(seq) == {seq[k].id : k \in 1 .. Len(seq)}

\* How often poll_one has invoked the callback of request id of rank r.
Called(log, id) == Cardinality({k \in 1 .. Len(log) : log[k].op = id})

\* Rank r has no child: 2r+1 is not a rank of the run.
IsLeaf(r) == 2 * r + 1 >= count

\* C1: on_done of every async_send_to_children call fires at most once, and
\* it has fired exactly when every child send of the call was found ready by
\* the poller (completed by the transport and consumed by a tick); with no
\* child it has fired once already.
C1_OnDoneOnce ==
  \A r \in Ranks : \A b \in 1 .. Len(bcast[r]) :
    LET B == bcast[r][b]
        found(id) == /\ ops[r][id].st = "done"
                     /\ Called(cbLog[r], id) >= 1
                     /\ id \notin Ids(Ledger(r))
    IN  /\ Len(B.done) <= 1
        /\ Len(B.done) = 1 <=> \A k \in 1 .. Len(B.sends) : found(B.sends[k])

\* C1 witness: a call with two children has fired on_done.
C1_Witness ==
  \E r \in Ranks : \E b \in 1 .. Len(bcast[r]) :
    Len(bcast[r][b].sends) = 2 /\ Len(bcast[r][b].done) = 1

\* C2: the ok given to on_done is the conjunction of the ok values is_ready
\* left in the child sends of the call.
C2_OnDoneIsAnd ==
  \A r \in Ranks : \A b \in 1 .. Len(bcast[r]) :
    LET B == bcast[r][b]
    IN  \A d \in 1 .. Len(B.done) :
          B.done[d] = (\A k \in 1 .. Len(B.sends) : RequestOk(ops[r][B.sends[k]]))

\* C2 witness: on_done got false because one of two child sends failed
\* while the other succeeded.
C2_Witness ==
  \E r \in Ranks : \E b \in 1 .. Len(bcast[r]) :
    LET B == bcast[r][b]
    IN  /\ Len(B.sends) = 2
        /\ B.done = <<FALSE>>
        /\ RequestOk(ops[r][B.sends[1]])
        /\ ~RequestOk(ops[r][B.sends[2]])

\* C3: at a rank without children, async_send_to_children submits no send
\* (every send of the rank belongs to an async_send_to_parent call, no
\* request carries a broadcast callback) and on_done has been invoked with
\* success as soon as the call has returned.
C3_LeafFiresAtOnce ==
  \A r \in Ranks : (r < count /\ IsLeaf(r)) =>
    /\ \A b \in 1 .. Len(bcast[r]) :
         bcast[r][b].done = <<TRUE>> /\ bcast[r][b].sends = <<>>
    /\ Cardinality({i \in 1 .. Len(ops[r]) : ops[r][i].kind = "send"})
         = Len(sent[r])
    /\ \A k \in 1 .. Len(Ledger(r)) : Ledger(r)[k].cb # "bcast"

\* C3 witness: a leaf has called async_send_to_children and no tick has
\* invoked any callback there.
C3_Witness ==
  \E r \in Ranks :
    r < count /\ IsLeaf(r) /\ Len(bcast[r]) = 1 /\ cbLog[r] = <<>>

\* The receive requests of a list whose callback has not been invoked.
ArmedIn(r, seq) ==
  {k \in 1 .. Len(seq) : seq[k].cb = "received"
                           /\ Called(cbLog[r], seq[k].id) = 0}

\* Callbacks of receive requests invoked so far at rank r.
RecvCallbacks(r) ==
  {k \in 1 .. Len(cbLog[r]) : ops[r][cbLog[r][k].op].kind = "recv"}

\* C4: once set_buffer_size has run, a receive is armed between any two
\* ticks, and every receive a tick found ready, with ok true or false, was
\* replaced by a fresh one in that tick: one receive was started per receive
\* callback, on top of the first one.
C4_AlwaysArmed ==
  \A r \in Ranks : buffer[r] # <<>> =>
    /\ ArmedIn(r, Ledger(r)) # {}
    /\ Cardinality({i \in 1 .. Len(ops[r]) : ops[r][i].kind = "recv"})
         = 1 + Cardinality(RecvCallbacks(r))

\* C4 witness: a receive has completed with ok = false and the receive armed
\* in its place waits in the staging list.
C4_Witness ==
  \E r \in Ranks :
    /\ \E k \in RecvCallbacks(r) : ~cbLog[r][k].ok
    /\ ArmedIn(r, requests[r]) # {}

\* C8: a request's callback is invoked at most once, only in a tick that
\* finds it in the working set with the transport's flag set, and that tick
\* removes it; a tick invokes the callback of every request it finds ready;
\* a request whose callback was invoked is never in the ledger again.
C8_ConsumedOnce ==
  [][\A r \in Ranks : \A i \in 1 .. Len(ops[r]) :
       LET n0 == Called(cbLog[r], i)
           n1 == Called(cbLog'[r], i)
           after == Ids(requests_to_process'[r]) \cup Ids(requests'[r])
           ready == i \in Ids(Ledger(r)) /\ ops[r][i].st = "done"
       IN  /\ n1 <= 1
           /\ n1 > n0 => ready
           /\ n1 = 1 => i \notin after
           /\ (requests_to_process'[r] # requests_to_process[r] /\ ready)
                => n1 = 1]_vars

\* C8 witness: a request was consumed and another one is still pending.
C8_Witness ==
  \E r \in Ranks :
    /\ cbLog[r] # <<>>
    /\ \E k \in 1 .. Len(requests_to_process[r]) :
         ops[r][requests_to_process[r][k].id].st = "pending"

\* The handler entry points invoked at rank p for request id, in order.
HandlerCalls(p, id) ==
  LET mine(c) == c.op = id
  IN  SelectSeq(hlog[p], mine)

\* Rank q has started a send of data to rank p.
HasSent(q, p, data) ==
  \E i \in 1 .. Len(ops[q]) :
    ops[q][i].kind = "send" /\ ops[q][i].dest = p /\ ops[q][i].data = data

\* The callbacks of rank p for receives the transport completed without
\* error, of a message from rank q.
Received(p, q) ==
  {k \in 1 .. Len(cbLog[p]) :
     LET o == ops[p][cbLog[p][k].op]
     IN  o.kind = "recv" /\ o.test /\ o.cnt /\ o.source = q}

\* C5: a message a non-root rank q sent to its parent p, received without
\* error, reaches the child-message entry point of every handler of p, once
\* each and in order, with the bytes q submitted, their number and sender q,
\* and no parent-message entry point.
C5_UpToChildEntry ==
  \A p \in Ranks : \A q \in Ranks \ {0} : parent(q) = p =>
    \A k \in Received(p, q) :
      LET id == cbLog[p][k].op
          data == ops[p][id].data
      IN  /\ HasSent(q, p, data)
          /\ HandlerCalls(p, id) =
               [i \in 1 .. Len(handlers[p]) |->
                  [op |-> id, entry |-> "child", h |-> handlers[p][i],
                   data |-> data, size |-> Len(data), sender |-> q]]

\* C5 witness: rank 0's handler got (<<1, 2, 3>>, 3, sender 1).
C5_Witness ==
  \E k \in 1 .. Len(hlog[0]) :
    /\ hlog[0][k].entry = "child"
    /\ hlog[0][k].data = <<1, 2, 3>>
    /\ hlog[0][k].size = 3
    /\ hlog[0][k].sender = 1

\* The children of rank r by the tree's index scheme, in increasing order.
ExpectedChildren(r) ==
  LET inRun(c) == c < count
  IN  SelectSeq(<<2 * r + 1, 2 * r + 2>>, inRun)

\* The sends rank r started for its async_send_to_children calls.
BroadcastSends(r) ==
  UNION {{bcast[r][b].sends[k] : k \in 1 .. Len(bcast[r][b].sends)} :
           b \in 1 .. Len(bcast[r])}

\* C6: every async_send_to_children call of rank r starts one send per child
\* of r, in increasing order of the children, all with the payload of the
\* call; every other send of r goes to parent(r); and a child that receives
\* the message without error hands exactly these bytes and their number to
\* the parent-message entry point of each of its handlers.
C6_DownToChildren ==
  /\ \A r \in Ranks :
       /\ \A b \in 1 .. Len(bcast[r]) :
            LET S == bcast[r][b].sends
            IN  /\ [k \in 1 .. Len(S) |-> ops[r][S[k]].dest] = ExpectedChildren(r)
                /\ \A k \in 1 .. Len(S) : ops[r][S[k]].data = DownPayload(r)
       /\ \A i \in 1 .. Len(ops[r]) :
            (ops[r][i].kind = "send" /\ i \notin BroadcastSends(r))
              => ops[r][i].dest = parent(r)
       /\ Cardinality({i \in 1 .. Len(ops[r]) : ops[r][i].kind = "send"})
            = Len(sent[r]) + Cardinality(BroadcastSends(r))
  /\ \A c \in Ranks \ {0} :
       \A k \in Received(c, parent(c)) :
         LET id == cbLog[c][k].op
             data == ops[c][id].data
         IN  /\ HasSent(parent(c), c, data)
             /\ HandlerCalls(c, id) =
                  [i \in 1 .. Len(handlers[c]) |->
                     [op |-> id, entry |-> "parent", h |-> handlers[c][i],
                      data |-> data, size |-> Len(data), sender |-> -1]]

\* Rank c's handlers got the payload of rank 0's broadcast as a parent message.
Delivered(c) ==
  \E k \in 1 .. Len(hlog[c]) :
    /\ hlog[c][k].entry = "parent"
    /\ hlog[c][k].data = DownPayload(0)
    /\ hlog[c][k].size = 4

\* C6 witness: five ranks, and ranks 1 and 2 both got rank 0's four bytes.
C6_Witness == count = 5 /\ Delivered(1) /\ Delivered(2)

\* C7 as claimed: with five ranks, once on_done of rank 0's broadcast has
\* fired, the handlers of ranks 1 and 2 have been given the payload.
C7_DeliveredBeforeOnDone ==
  count = 5 =>
    \A b \in 1 .. Len(bcast[0]) :
      bcast[0][b].done # <<>> => Delivered(1) /\ Delivered(2)

\* The message of send i of rank r is with the transport or was matched
\* with a receive of its destination.
Handed(r, i) ==
  LET c == ops[r][i].dest
  IN  \/ \E j \in 1 .. Len(msgs[c]) :
           msgs[c][j].src = r /\ msgs[c][j].data = ops[r][i].data
      \/ \E j \in 1 .. Len(ops[c]) :
           /\ ops[c][j].kind = "recv" /\ ops[c][j].st = "done"
           /\ ops[c][j].source = r /\ ops[c][j].data = ops[r][i].data

\* C7 amended: with five ranks, on_done of rank 0's broadcast fires once, and
\* only after the transport has completed the sends to ranks 1 and 2 and
\* rank 0's own poller has consumed both; their messages are then with the
\* transport or the receivers, whose handlers may not have run yet.
C7_SendsDoneBeforeOnDone ==
  count = 5 =>
    \A b \in 1 .. Len(bcast[0]) :
      LET B == bcast[0][b]
      IN  B.done # <<>> =>
            /\ Len(B.done) = 1
            /\ \A c \in {1, 2} : \E k \in 1 .. Len(B.sends) :
                 /\ ops[0][B.sends[k]].dest = c
                 /\ ops[0][B.sends[k]].st = "done"
                 /\ Called(cbLog[0], B.sends[k]) = 1
                 /\ Handed(0, B.sends[k])

\* C7 witness: on_done has fired at rank 0 and no handler has run at rank 1.
C7_Witness ==
  /\ count = 5
  /\ Len(bcast[0]) = 1
  /\ bcast[0][1].done # <<>>
  /\ hlog[1] = <<>>

\* Every request of rank 1 the transport has completed had its callback.
AllCompletedCalled ==
  \A i \in 1 .. Len(ops[1]) :
    ops[1][i].st = "done" => Called(cbLog[1], i) = 1

\* C9: with ticks that keep coming, whatever the transport has completed,
\* with or without error, gets its callback: again and again every
\* completed request has been called back, also with 101 requests pending.
C9_AllResolve == []<>AllCompletedCalled

\* C9 witness: 101 sends were submitted before the first tick that saw them
\* and all have been called back.
C9_Witness ==
  /\ Len(ops[1]) >= 101
  /\ \A i \in 1 .. Len(ops[1]) : Called(cbLog[1], i) = 1

\* C10: the warning of a tick is raised exactly when more than 100 requests
\* stay in the working set, and no step loses a request: what was pending
\* in the ledger is still in it, and what was started is in it.
C10_WarningOnly ==
  [][\A r \in Ranks :
       /\ warned'[r] = (Len(requests_to_process'[r]) > 100)
       /\ \A i \in 1 .. Len(ops'[r]) :
            \/ i \in Ids(requests_to_process'[r]) \cup Ids(requests'[r])
            \/ /\ i <= Len(ops[r])
               /\ i \notin Ids(Ledger(r)) \/ ops[r][i].st = "done"]_vars

\* C10 witness: a tick has left 101 requests pending and raised the warning,
\* and a send submitted after it waits in the staging list.
C10_Witness ==
  /\ warned[1]
  /\ Len(requests_to_process[1]) = 101
  /\ Ids(requests[1]) = {102}

\* ------------------------------------------------------- topology claims
\* The ranks in a vector of ranks.
Elems(seq) == {seq[k] : k \in 1 .. Len(seq)}

\* C11: whenever children() at rank r returned c and parent() was asked at
\* rank c, parent() returned r.
C11_ParentOfChild ==
  \A r \in Ranks : \A c \in Ranks :
    (/\ children_ret[r] # <<>>
     /\ c \in Elems(children_ret[r][1])
     /\ parent_ret[c] # <<>>) => parent_ret[c][1] = r

\* C11 witness: five ranks; rank 1 returned the children 3 and 4, and ranks
\* 3 and 4 both returned the parent 1.
C11_Witness ==
  /\ count = 5
  /\ children_ret[1] = << <<3, 4>> >>
  /\ parent_ret[3] = <<1>>
  /\ parent_ret[4] = <<1>>

\* C12: what children() returns at rank r is the ranks of {2r+1, 2r+2}
\* below the comm size, in increasing order: at most two, none in a run of
\* one rank, none outside the run and never r itself.
C12_ChildrenInRange ==
  \A r \in Ranks : children_ret[r] # <<>> =>
    LET K == children_ret[r][1]
    IN  /\ Elems(K) = {2 * r + 1, 2 * r + 2} \cap (0 .. (count - 1))
        /\ \A i \in 1 .. Len(K) : \A j \in 1 .. Len(K) : i < j => K[i] < K[j]
        /\ Len(K) \in {0, 1, 2}
        /\ count < 2 => K = <<>>
        /\ \A i \in 1 .. Len(K) : K[i] < count /\ K[i] # r

\* C12 witness: four ranks; children() returned two ranks at rank 0, one at
\* rank 1 and none at rank 2.
C12_Witness ==
  /\ count = 4
  /\ children_ret[0] = << <<1, 2>> >>
  /\ children_ret[1] = << <<3>> >>
  /\ children_ret[2] = << <<>> >>

\* C13: parent() answers at every rank with a rank of the run: 0 at rank 0,
\* and at rank r > 0 the p with 2p+1 <= r <= 2p+2; in a run of one rank,
\* rank 0 is its own parent and has no children.
C13_ParentTotal ==
  /\ \A r \in Ranks : parent_ret[r] # <<>> =>
       LET p == parent_ret[r][1]
       IN  /\ p \in 0 .. (count - 1)
           /\ r = 0 => p = 0
           /\ r > 0 => (2 * p + 1 <= r /\ r <= 2 * p + 2)
  /\ count = 1 =>
       /\ parent_ret[0] \in {<<>>, <<0>>}
       /\ children_ret[0] \in {<<>>, << <<>> >>}
  /\ \A r \in Ranks :
       (r < count /\ parent_ret[r] = <<>>) => ENABLED Parent(r)

\* C13 witness: in a run of one rank, rank 0 returned itself as parent and
\* no children.
C13_Witness ==
  /\ count = 1
  /\ parent_ret[0] = <<0>>
  /\ children_ret[0] = << <<>> >>

\* C14: the parent of a rank r > 0 is a smaller rank (so the parents lead
\* to rank 0 without a cycle), r is in the children of its parent, and in
\* the children of no other rank.
C14_TreeRootedAtZero ==
  \A r \in Ranks \ {0} :
    /\ parent_ret[r] # <<>> =>
         /\ parent_ret[r][1] < r
         /\ children_ret[parent_ret[r][1]] # <<>> =>
              Cardinality({k \in 1 .. Len(children_ret[parent_ret[r][1]][1]) :
                             children_ret[parent_ret[r][1]][1][k] = r}) = 1
    /\ \A q \in Ranks :
         (/\ children_ret[q] # <<>>
          /\ r \in Elems(children_ret[q][1])
          /\ parent_ret[r] # <<>>) => q = parent_ret[r][1]
    /\ \A q1 \in Ranks : \A q2 \in Ranks :
         (/\ children_ret[q1] # <<>> /\ r \in Elems(children_ret[q1][1])
          /\ children_ret[q2] # <<>> /\ r \in Elems(children_ret[q2][1]))
           => q1 = q2

\* C14 witness: five ranks, all asked for parent and children; ranks 1 to 4
\* appear in the children returned, each once.
C14_Witness ==
  /\ count = 5
  /\ \A r \in Ranks : children_ret[r] # <<>> /\ parent_ret[r] # <<>>
  /\ \A r \in Ranks \ {0} :
       Cardinality({q \in Ranks : r \in Elems(children_ret[q][1])}) = 1

\* ------------------------------------------------------ self-addressed sends
\* The sends rank r has started to itself.
SelfSends(r) ==
  {i \in 1 .. Len(ops[r]) : ops[r][i].kind = "send" /\ ops[r][i].dest = r}

\* The handler calls of rank r for a message that came from r itself.
SelfDispatched(r) ==
  {k \in 1 .. Len(hlog[r]) : ops[r][hlog[r][k].op].source = r}

\* C15 as claimed: no rank starts a send to itself, and no rank hands a
\* message of its own to a parent-message entry point.
C15_NoSelfSend ==
  \A r \in Ranks :
    /\ SelfSends(r) = {}
    /\ \A k \in SelfDispatched(r) : hlog[r][k].entry # "parent"

\* C15 amended: a rank r > 0 never sends to itself.  At rank 0 nothing is
\* suppressed: every async_send_to_parent call starts one send to rank 0
\* itself (and no send to the children does), and a message of rank 0 that
\* rank 0 hands to its handlers goes to the parent-message entry point.
C15_SelfSendOnlyAtRoot ==
  /\ \A r \in Ranks \ {0} : SelfSends(r) = {} /\ SelfDispatched(r) = {}
  /\ SelfSends(0) \cap BroadcastSends(0) = {}
  /\ Cardinality(SelfSends(0)) = Len(sent[0])
  /\ \A k \in SelfDispatched(0) :
       /\ hlog[0][k].entry = "parent"
       /\ hlog[0][k].data = UpPayload(0)
       /\ SelfSends(0) # {}

\* C15 witness: rank 0 has sent to its parent, and its own handler got the
\* message as a parent message.
C15_Witness ==
  /\ SelfSends(0) # {}
  /\ \E k \in SelfDispatched(0) : hlog[0][k].entry = "parent"

\* ------------------------------------------------------- dispatch claims
\* C16: the handler calls made for a receive whose callback got ok = true all
\* use one entry point, chosen by the sender alone: the parent-message entry
\* point (buffer, size) when the sender is parent(), the child-message entry
\* point (buffer, size, sender) otherwise.
C16_DispatchBySender ==
  \A r \in Ranks : \A k \in RecvCallbacks(r) :
    cbLog[r][k].ok =>
      LET from == cbLog[r][k].sender
          calls == HandlerCalls(r, cbLog[r][k].op)
      IN  \A i \in 1 .. Len(calls) :
            /\ calls[i].size = cbLog[r][k].size
            /\ Len(calls[i].data) = cbLog[r][k].size
            /\ from = parent(r) =>
                 calls[i].entry = "parent" /\ calls[i].sender = -1
            /\ from # parent(r) =>
                 calls[i].entry = "child" /\ calls[i].sender = from

\* C16 witness: rank 1 has handed a message of its parent (rank 0) to the
\* parent-message entry point and a message of its child (rank 3) to the
\* child-message entry point.
C16_Witness ==
  /\ \E k \in 1 .. Len(hlog[1]) :
       hlog[1][k].entry = "parent" /\ ops[1][hlog[1][k].op].source = 0
  /\ \E k \in 1 .. Len(hlog[1]) :
       hlog[1][k].entry = "child" /\ hlog[1][k].sender = 3

\* The handlers called for request id in a handler log, in call order.
HandlersCalled(log, id) ==
  LET mine(c) == c.op = id
      calls == SelectSeq(log, mine)
  IN  [i \in 1 .. Len(calls) |-> calls[i].h]

\* C17: no step removes or reorders a registered handler (the list only
\* grows at its end), and a step that gives a receive callback ok = true
\* calls every handler registered before that step once, in registration
\* order; handler calls are made for such receives only and are never
\* repeated in a later step.
C17_AllHandlersInOrder ==
  [][\A r \in Ranks :
       /\ Len(handlers'[r]) >= Len(handlers[r])
       /\ SubSeq(handlers'[r], 1, Len(handlers[r])) = handlers[r]
       /\ Len(hlog'[r]) >= Len(hlog[r])
       /\ SubSeq(hlog'[r], 1, Len(hlog[r])) = hlog[r]
       /\ \A k \in (Len(cbLog[r]) + 1) .. Len(cbLog'[r]) :
            ops'[r][cbLog'[r][k].op].kind = "recv" =>
              /\ cbLog'[r][k].ok =>
                   HandlersCalled(hlog'[r], cbLog'[r][k].op) = handlers[r]
              /\ HandlersCalled(hlog[r], cbLog'[r][k].op) = <<>>
       /\ \A j \in (Len(hlog[r]) + 1) .. Len(hlog'[r]) :
            \E k \in (Len(cbLog[r]) + 1) .. Len(cbLog'[r]) :
              cbLog'[r][k].op = hlog'[r][j].op /\ cbLog'[r][k].ok]_vars

\* C17 witness: at rank 1 one message was given to the only handler
\* registered by then, and a later message to both handlers, first to the
\* one registered first.
C17_Witness ==
  \E a \in 1 .. Len(ops[1]) : \E b \in 1 .. Len(ops[1]) :
    /\ a < b
    /\ HandlersCalled(hlog[1], a) = <<1>>
    /\ HandlersCalled(hlog[1], b) = <<1, 2>>

\* -------------------------------------------------------- failure claims
\* The transport completed request id of rank r with an error: MPI_Test or
\* MPI_Get_count did not return MPI_SUCCESS.
Failed(r, id) == ~ops[r][id].test \/ ~ops[r][id].cnt

\* C18: a request whose completion test (MPI_Test) reported a failure has
\* its callback invoked with ok = false.
C18_TestFailureIsNotOk ==
  \A r \in Ranks : \A k \in 1 .. Len(cbLog[r]) :
    ~ops[r][cbLog[r][k].op].test => ~cbLog[r][k].ok

\* The receive requests in a list.
Receives(seq) == {k \in 1 .. Len(seq) : seq[k].cb = "received"}

\* C19: a step that gives a receive callback ok = false makes no handler
\* call for that receive, and every step arms exactly one receive per
\* receive callback it invokes, placed on the staging list.
C19_FailedReceiveRearmed ==
  [][\A r \in Ranks :
       LET new == (Len(cbLog[r]) + 1) .. Len(cbLog'[r])
           recvd == {k \in new : ops'[r][cbLog'[r][k].op].kind = "recv"}
       IN  /\ \A k \in recvd :
                ~cbLog'[r][k].ok =>
                  HandlersCalled(hlog'[r], cbLog'[r][k].op) = <<>>
           /\ (\E k \in recvd : ~cbLog'[r][k].ok) =>
                /\ Len(ops'[r]) = Len(ops[r]) + Cardinality(recvd)
                /\ \A i \in (Len(ops[r]) + 1) .. Len(ops'[r]) :
                     /\ ops'[r][i].kind = "recv"
                     /\ ops'[r][i].st = "pending"
                     /\ i \in Ids(requests'[r])
                /\ Cardinality(Receives(requests'[r])) = Cardinality(recvd)]_vars

\* C19 witness: at rank 1 a receive got ok = false and no handler call, and
\* the receive armed in its place has delivered a later message to the
\* handler.
C19_Witness ==
  \E a \in RecvCallbacks(1) : \E b \in RecvCallbacks(1) :
    /\ a < b
    /\ ~cbLog[1][a].ok
    /\ HandlersCalled(hlog[1], cbLog[1][a].op) = <<>>
    /\ cbLog[1][b].ok
    /\ HandlersCalled(hlog[1], cbLog[1][b].op) # <<>>

\* The send operations rank r has started.
Sends(o) == {i \in 1 .. Len(o) : o[i].kind = "send"}

\* C20: a step that invokes the callback of a send the transport completed
\* with an error gives that callback ok = false and every callback of a
\* request completed without error ok = true; it starts no send, and it
\* leaves the handler list and every request still pending (the armed
\* receive among them) as they were.
C20_FailedSendOwnCallback ==
  [][\A r \in Ranks :
       LET new == (Len(cbLog[r]) + 1) .. Len(cbLog'[r])
           failed == {k \in new : /\ ops[r][cbLog'[r][k].op].kind = "send"
                                   /\ Failed(r, cbLog'[r][k].op)}
       IN  failed # {} =>
             /\ \A k \in failed : ~cbLog'[r][k].ok
             /\ \A k \in new \ failed :
                  ~Failed(r, cbLog'[r][k].op) => cbLog'[r][k].ok
             /\ Sends(ops'[r]) = Sends(ops[r])
             /\ handlers'[r] = handlers[r]
             /\ \A e \in 1 .. Len(Ledger(r)) :
                  ops[r][Ledger(r)[e].id].st = "pending" =>
                    \E f \in 1 .. Len(requests_to_process'[r]) :
                      requests_to_process'[r][f] = Ledger(r)[e]]_vars

\* --------------------------------------------------------- ordering claims
\* The callbacks a step adds to the callback log of rank r.
NewCallbacks(r) == (Len(cbLog[r]) + 1) .. Len(cbLog'[r])

\* C21 as claimed: the callbacks one tick invokes follow the order in which
\* the transport completed their requests.
C21_CompletionOrder ==
  [][\A r \in Ranks : \A a \in NewCallbacks(r) : \A b \in NewCallbacks(r) :
       a < b => Place(ready_order[r], cbLog'[r][a].op)
                  < Place(ready_order[r], cbLog'[r][b].op)]_vars

\* C21 amended: the callbacks one tick invokes follow the order in which
\* their requests were submitted (request ids grow with submission),
\* whatever the order in which the transport completed them.
C21_SubmissionOrder ==
  [][\A r \in Ranks : \A a \in NewCallbacks(r) : \A b \in NewCallbacks(r) :
       a < b => cbLog'[r][a].op < cbLog'[r][b].op]_vars

\* C21 witness: one tick of rank 0 has called back the sends to both
\* children, the earlier one first, although the transport had completed
\* the later one first.
C21_Witness ==
  \E a \in 1 .. Len(cbLog[0]) : \E b \in 1 .. Len(cbLog[0]) :
    /\ b = a + 1
    /\ cbLog[0][a].op < cbLog[0][b].op
    /\ ops[0][cbLog[0][a].op].kind = "send"
    /\ ops[0][cbLog[0][b].op].kind = "send"
    /\ cbLog[0][a].late = 1
    /\ cbLog[0][b].late = 0

\* ------------------------------------------------------- lifecycle claims
\* The receive operations rank r has started.
RecvOps(r) == {i \in 1 .. Len(ops[r]) : ops[r][i].kind = "recv"}

\* C22 as claimed: from construction until set_buffer_size is called, the
\* ledger of every rank of the run holds one outstanding receive.
C22_ArmedAtConstruction ==
  \A r \in Ranks : (r < count /\ buffer[r] = <<>>) =>
    Cardinality(Receives(Ledger(r))) = 1

\* C22 amended: from construction until set_buffer_size is called no
\* receive is armed: no receive operation was started and the ledger holds
\* no receive request, whatever else the rank has done.
C22_ArmedBySetBufferSize ==
  \A r \in Ranks : buffer[r] = <<>> =>
    /\ RecvOps(r) = {}
    /\ Receives(Ledger(r)) = {}

\* C22 witness: a rank has sent, and its poller has invoked the send's
\* callback, with set_buffer_size not yet called and no receive started.
C22_Witness ==
  \E r \in Ranks :
    /\ r < count
    /\ buffer[r] = <<>>
    /\ cbLog[r] # <<>>
    /\ RecvOps(r) = {}

\* C23: the first set_buffer_size(n) of a rank leaves a buffer of n bytes
\* and appends one receive request, for a receive of n bytes, to the staging
\* list, which then holds exactly one receive; the requests staged before,
\* the working set and the handler list are as they were.
C23_FirstReceiveArmed ==
  [][\A r \in Ranks : (buffer[r] = <<>> /\ buffer'[r] # <<>>) =>
       /\ Len(buffer'[r]) = MaxPacketSize
       /\ Len(requests'[r]) = Len(requests[r]) + 1
       /\ SubSeq(requests'[r], 1, Len(requests[r])) = requests[r]
       /\ Receives(requests'[r]) = {Len(requests'[r])}
       /\ RecvOps(r) = {}
       /\ ops'[r] = Append(ops[r], ops'[r][Len(ops'[r])])
       /\ requests'[r][Len(requests'[r])].id = Len(ops'[r])
       /\ ops'[r][Len(ops'[r])].kind = "recv"
       /\ ops'[r][Len(ops'[r])].st = "pending"
       /\ ops'[r][Len(ops'[r])].cap = MaxPacketSize
       /\ requests_to_process'[r] = requests_to_process[r]
       /\ handlers'[r] = handlers[r]]_vars

\* C23 witness: set_buffer_size was called with a send already staged: the
\* staging list holds the send and, after it, the receive of n bytes.
C23_Witness ==
  \E r \in Ranks :
    /\ Len(requests[r]) >= 2
    /\ requests[r][1].cb # "received"
    /\ Receives(requests[r]) = {Len(requests[r])}
    /\ ops[r][requests[r][Len(requests[r])].id].cap = MaxPacketSize
    /\ Len(buffer[r]) = MaxPacketSize

\* --------------------------------------------------------- submission claims
\* The sends of rank r started by async_send_to_parent, in call order: the
\* send operations wrapped by no broadcast callback.
ParentSends(r) ==
  LET wrapped(i) == \E b \in 1 .. Len(bcast[r]) : i \in Elems(bcast[r][b].sends)
      own(i) == ops[r][i].kind = "send" /\ ~wrapped(i)
  IN  SelectSeq([i \in 1 .. Len(ops[r]) |-> i], own)

\* C24: the k-th async_send_to_parent of a rank has started exactly one
\* send, to parent(); the call appends its request to the staging list and
\* invokes nothing; the request stays in the ledger, once, until a tick finds
\* the send complete, and that tick invokes on_sent for it, once, with
\* ok = true if the transport completed the send without error and
\* ok = false if it completed it with an error.
C24_OneSendOneOnSent ==
  /\ [](\A r \in Ranks :
          /\ Len(ParentSends(r)) = Len(sent[r])
          /\ \A k \in 1 .. Len(sent[r]) :
               LET i == ParentSends(r)[k]
                   held == {e \in 1 .. Len(Ledger(r)) : Ledger(r)[e].id = i}
               IN  /\ ops[r][i].dest = parent(r)
                   /\ Len(sent[r][k]) = Called(cbLog[r], i)
                   /\ Cardinality(held) = 1 - Len(sent[r][k])
                   /\ \A e \in held : /\ Ledger(r)[e].cb = "sent"
                                      /\ Ledger(r)[e].arg = k
                   /\ ops[r][i].st = "pending" => sent[r][k] = <<>>
                   /\ sent[r][k] # <<>> => sent[r][k] = <<~Failed(r, i)>>)
  /\ [][\A r \in Ranks :
          /\ Len(sent'[r]) > Len(sent[r]) =>
               /\ cbLog'[r] = cbLog[r]
               /\ requests_to_process'[r] = requests_to_process[r]
               /\ Len(requests'[r]) = Len(requests[r]) + Len(sent'[r]) - Len(sent[r])
               /\ SubSeq(requests'[r], 1, Len(requests[r])) = requests[r]
               /\ \A e \in (Len(requests[r]) + 1) .. Len(requests'[r]) :
                    requests'[r][e].cb = "sent"
          /\ cbLog'[r] # cbLog[r] =>
               \A e \in 1 .. Len(Ledger(r)) :
                 ops[r][Ledger(r)[e].id].st = "done" =>
                   Called(cbLog'[r], Ledger(r)[e].id) = 1]_vars

\* C25: the constructor posts one poll_one and every poll_one posts one
\* more as its last step: once the Waypoint exists, one poll_one is queued
\* whenever no tick is running and none while one runs; and with an
\* io_service that runs what is posted, ticks keep occurring.
C25_Reschedules ==
  /\ [][\A r \in Ranks :
          /\ instances'[r] > instances[r] => posted'[r] = posted[r] + 1
          /\ (pc[r] = "process" /\ pc'[r] = "idle") => posted'[r] = posted[r] + 1]_vars
  /\ [](\A r \in Ranks :
          /\ (pc[r] = "idle" /\ Has(r)) => posted[r] = 1
          /\ (pc[r] = "process" \/ ~Has(r)) => posted[r] = 0)
  /\ \A r \in 0 .. 1 : [](Has(r) => []<>(pc[r] = "process"))
  /\ \A r \in 0 .. 1 : [](Has(r) => []<>(pc[r] = "idle"))

\* C25 witness: a tick of rank 1 has run a callback and has posted the
\* next poll_one.
C25_Witness ==
  /\ cbLog[1] # <<>>
  /\ pc[1] = "idle"
  /\ posted[1] = 1

\* C27: in a build with MPI the Waypoint of a process is constructed by the
\* first get_instance call and never again, and every call returns that one
\* object; in a build without MPI every call throws, returns no object, and
\* nothing is ever constructed.
C27_Singleton ==
  \A r \in Ranks :
    /\ instances[r] <= 1
    /\ use_mpi => /\ Has(r) <=> got[r] # <<>>
                  /\ \A k \in 1 .. Len(got[r]) :
                       ~got[r][k].thrown /\ got[r][k].inst = 1
    /\ ~use_mpi => /\ ~Has(r)
                   /\ posted[r] = 0
                   /\ \A k \in 1 .. Len(got[r]) :
                        got[r][k].thrown /\ got[r][k].inst = 0

\* C27 witness: one process has called get_instance MaxGets times in a
\* build with MPI, and its poller has run; the other process, too, has
\* called it.
C27_Witness ==
  /\ use_mpi
  /\ Len(got[1]) = MaxGets
  /\ cbLog[1] # <<>>
  /\ got[0] # <<>>

\* ----------------------------------------------------------- thread claims
\* C26: the thread of the first poll_one is recorded as the main thread and
\* the record never changes; the assert of poll_one has failed exactly when
\* the latest poll_one ran on a thread other than the recorded one (so it
\* never fails while only the io_service thread runs poll_one), and a
\* poll_one whose assert fails does nothing else.
C26_OnePollingThread ==
  /\ [][\A r \in Ranks :
          /\ main_thread_id[r] # "none" => main_thread_id'[r] = main_thread_id[r]
          /\ (main_thread_id[r] = "none" /\ poll_thread'[r] # "none") =>
               main_thread_id'[r] = poll_thread'[r]
          /\ (assert_failed'[r] /\ ~assert_failed[r]) =>
               /\ poll_thread'[r] # main_thread_id[r]
               /\ requests'[r] = requests[r]
               /\ requests_to_process'[r] = requests_to_process[r]
               /\ cbLog'[r] = cbLog[r]
               /\ posted'[r] <= posted[r]]_vars
  /\ [](\A r \in Ranks : assert_failed[r] <=> poll_thread[r] # main_thread_id[r])
  /\ [](\A r \in Ranks :
          (main_thread_id[r] = "loop" /\ poll_thread[r] = "loop") => ~assert_failed[r])

\* C26 witness: the io_service thread has run ticks of rank 1, with
\* callbacks, and then the caller thread has called poll_one: the assert
\* has failed.
C26_Witness ==
  /\ assert_failed[1]
  /\ main_thread_id[1] = "loop"
  /\ poll_thread[1] = "caller"
  /\ cbLog[1] # <<>>

\* The requests of a list that carry a reply of the replying handler.
Replies(r, seq) ==
  {k \in 1 .. Len(seq) : ops[r][seq[k].id].data \in {UpReply(r), DownReply(r)}}

\* C28: in every step, a request the step submits is afterwards in the
\* staging list only and has not been called back; the working set takes
\* in requests only from the staging list and only in the locked block at
\* the start of a poll_one; and while a tick is under way (between that
\* block and the post) the working set gains nothing, the requests staged
\* stay staged, and only requests of the working set are called back.
C28_StagedUntilNextTick ==
  [][\A r \in Ranks :
       /\ \A i \in (Len(ops[r]) + 1) .. Len(ops'[r]) :
            /\ i \in Ids(requests'[r])
            /\ i \notin Ids(requests_to_process'[r])
            /\ Called(cbLog'[r], i) = 0
       /\ Ids(requests_to_process'[r]) \subseteq Ids(Ledger(r))
       /\ \A k \in NewCallbacks(r) : cbLog'[r][k].op \in Ids(Ledger(r))
       /\ ~(Ids(requests_to_process'[r]) \subseteq Ids(requests_to_process[r])) =>
            /\ pc[r] = "idle"
            /\ pc'[r] = "process" \/ posted'[r] > posted[r]
       /\ pc[r] = "process" =>
            /\ Ids(requests_to_process'[r]) \subseteq Ids(requests_to_process[r])
            /\ Ids(requests[r]) \subseteq Ids(requests'[r])
            /\ \A k \in NewCallbacks(r) :
                 cbLog'[r][k].op \in Ids(requests_to_process[r])]_vars

\* C28 witness: a tick of rank 1 is under way; the reply a handler sent
\* during an earlier tick is in the working set, and a send the caller
\* thread submitted during this tick, already completed by the transport,
\* is in the staging list.
C28_Witness ==
  /\ pc[1] = "process"
  /\ Replies(1, requests_to_process[1]) # {}
  /\ \E k \in 1 .. Len(requests[1]) :
       /\ requests[1][k].cb = "sent"
       /\ ops[1][requests[1][k].id].st = "done"
       /\ ops[1][requests[1][k].id].data = UpPayload(1)

\* How often request id occurs in a list.
Occurs(seq, id) == Cardinality({k \in 1 .. Len(seq) : seq[k].id = id})

\* C30: whatever the interleaving of the caller thread's submissions, the
\* callbacks' submissions and the ticks, every request started is, at any
\* time, exactly once in the staging list, or exactly once in the working
\* set, or called back once; a request submitted is once in the staging
\* list, the locked block of poll_one moves the whole staging list, in
\* order, to the end of the working set and leaves it empty, and no request
\* of the working set returns to the staging list.
C30_NeitherLostNorDuplicated ==
  /\ [](\A r \in Ranks : \A i \in 1 .. Len(ops[r]) :
          Occurs(requests[r], i) + Occurs(requests_to_process[r], i)
            + Called(cbLog[r], i) = 1)
  /\ [][\A r \in Ranks :
          /\ \A i \in (Len(ops[r]) + 1) .. Len(ops'[r]) :
               Occurs(requests'[r], i) = 1
          /\ \A i \in Ids(requests_to_process[r]) : Occurs(requests'[r], i) = 0
          /\ (pc[r] = "idle" /\ pc'[r] = "process") =>
               /\ requests'[r] = <<>>
               /\ requests_to_process'[r] = requests_to_process[r] \o requests[r]]_vars

\* C30 witness: one send of the caller thread of rank 1 has gone through
\* the staging list and the working set and was called back; during a
\* later tick, still under way, the caller thread has submitted another.
C30_Witness ==
  /\ pc[1] = "process"
  /\ \E k \in 1 .. Len(cbLog[1]) : ops[1][cbLog[1][k].op].data = UpPayload(1)
  /\ \E k \in 1 .. Len(requests[1]) : ops[1][requests[1][k].id].data = UpPayload(1)
  /\ requests_to_process[1] # <<>>

\* The calls of the replying handler at rank r, and the sends that carry
\* its replies.
ReplierCalls(r) == {k \in 1 .. Len(hlog[r]) : hlog[r][k].h = ReplyingHandler}
ReplyOps(r) ==
  {i \in 1 .. Len(ops[r]) : ops[r][i].data \in {UpReply(r), DownReply(r)}}

\* C29: no thread ever waits for a lock it holds itself, every call has
\* released the mutex when it returns, and poll_one invokes every callback
\* with the mutex released; the submissions made from inside callbacks
\* have gone through: each call of the replying handler has started its
\* send (one per call at rank 1, which has one child) and each receive
\* callback has armed the next receive.
C29_CallbacksMaySubmit ==
  \A r \in Ranks :
    /\ ~mtx[r].stuck
    /\ mtx[r].lk = 0
    /\ \A k \in 1 .. Len(cbLog[r]) : cbLog[r][k].held = 0
    /\ r = 1 => Cardinality(ReplyOps(r)) = Cardinality(ReplierCalls(r))
    /\ buffer[r] # <<>> => Cardinality(RecvOps(r)) = 1 + Cardinality(RecvCallbacks(r))

\* C29 witness: a message from its child has reached rank 1; inside the
\* receive callback the replying handler has called async_send_to_parent
\* and the callback has re-armed the receive: both requests are staged.
C29_Witness ==
  /\ \E k \in ReplierCalls(1) : hlog[1][k].entry = "child"
  /\ Replies(1, requests[1]) # {}
  /\ Receives(requests[1]) # {}
  /\ pc[1] = "idle"

\* --------------------------------------------------- concurrent registration
\* C31: while received() is under way, every iteration of its loop indexes
\* its snapshot within the snapshot's length and invokes the handler found
\* there, and when received() returns it has invoked exactly the handlers of
\* the snapshot, in order, whatever a caller thread registers meanwhile.
C31_DispatchWithinSnapshot ==
  [][\A r \in Ranks : pc[r] = "dispatch" =>
       /\ (hlog'[r] # hlog[r] \/ pc'[r] = "crashed") =>
            /\ disp[r].i <= Len(disp[r].to_call)
            /\ pc'[r] = "dispatch"
            /\ hlog'[r] = Append(hlog[r],
                                 DispatchCall(r, disp[r].to_call[disp[r].i]))
       /\ pc'[r] = "idle" =>
            HandlersCalled(hlog[r], disp[r].op) = disp[r].to_call]_vars

\* C32: with set_buffer_size called once, while received() is between its
\* snapshot and its return (a handler entry point may be executing on the
\* buffer) no receive of the rank is pending at the transport and no step
\* changes the buffer; the receive is armed by the step that returns.
C32_NoReceiveWhileHandling ==
  [][\A r \in Ranks : (sized[r] = 1 /\ pc[r] = "dispatch") =>
       /\ PendingOps(r, "recv") = {}
       /\ buffer'[r] = buffer[r]
       /\ pc'[r] = "idle" => Cardinality(PendingOps(r, "recv")') = 1]_vars

\* A handler has been invoked for a message and has not returned to
\* poll_one, while a further message for the rank waits at the transport.
C32_Witness ==
  /\ sized[1] = 1
  /\ pc[1] = "dispatch"
  /\ disp[1].i > 1
  /\ msgs[1] # <<>>

\* ------------------------------------------------------ receive accounting
\* C33: between poll ticks the receive requests in the ledger of a rank
\* (staging list plus working set) are as many as the calls of
\* set_buffer_size made there: none before the first call, one after a
\* single call, one more with each further call, whatever was received.
C33_ReceivesEqualCalls ==
  \A r \in Ranks : (r < count /\ pc[r] = "idle") =>
    /\ Cardinality(Receives(Ledger(r))) = sized[r]
    /\ Cardinality(ArmedIn(r, Ledger(r))) = sized[r]

\* set_buffer_size was called twice and two receive callbacks have run:
\* there are still two receives in the ledger.
C33_Witness ==
  /\ sized[1] = 2
  /\ Cardinality(RecvCallbacks(1)) = 2
  /\ Cardinality(Receives(Ledger(1))) = 2

\* -------------------------------------------------------- pending operations
\* C34: a request whose callback has not been invoked occurs exactly once in
\* staging list plus working set; a step that takes a request out of the
\* ledger invokes its callback, once, and the request was complete; a
\* request still pending at the transport stays in the ledger, however long
\* the working set has grown.
C34_LeavesOnlyWhenCalled ==
  [][\A r \in Ranks : \A i \in 1 .. Len(ops[r]) :
       /\ Called(cbLog[r], i) = 0 => Occurs(Ledger(r), i) = 1
       /\ (Occurs(Ledger(r), i) = 1 /\ Occurs(Ledger(r)', i) = 0) =>
            /\ ops[r][i].st = "done"
            /\ Called(cbLog'[r], i) = Called(cbLog[r], i) + 1
       /\ ops[r][i].st = "pending" => Occurs(Ledger(r)', i) = 1]_vars

\* The working set is over the warning threshold, ticks have invoked the
\* callbacks of some sends, and the sends still pending are all in it.
C34_Witness ==
  /\ warned[1]
  /\ cbLog[1] # <<>>
  /\ Len(requests_to_process[1]) > WarnThreshold
  /\ \A k \in 1 .. Len(requests_to_process[1]) :
       ops[1][requests_to_process[1][k].id].st = "pending"

\* ------------------------------------------------------ order within a tick
\* The ids of the requests of a list, in the order of the list.
IdsInOrder(seq) == [k \in 1 .. Len(seq) |-> seq[k].id]

\* C35: a tick works on the working set with the staging list appended; the
\* callbacks it invokes are those of the complete requests of that list, in
\* the order of the list, and the working set it leaves is the list of the
\* requests not complete, in the order of the list.
C35_BothPartsKeepOrder ==
  [][\A r \in Ranks :
       (cbLog'[r] # cbLog[r] \/ requests_to_process'[r] # requests_to_process[r]) =>
         LET done(q) == ops[r][q.id].st = "done"
             pending(q) == ops[r][q.id].st = "pending"
         IN  /\ [k \in 1 .. (Len(cbLog'[r]) - Len(cbLog[r])) |->
                   cbLog'[r][Len(cbLog[r]) + k].op]
                  = IdsInOrder(SelectSeq(Ledger(r), done))
             /\ requests_to_process'[r] = SelectSeq(Ledger(r), pending)]_vars

\* A tick of rank 0 has called back the send to the second child and left
\* the receive and the send to the first child, both pending, in the
\* working set in the order they were submitted.
C35_Witness ==
  /\ \E k \in 1 .. Len(cbLog[0]) : cbLog[0][k].op = 3
  /\ IdsInOrder(requests_to_process[0]) = <<1, 2>>
  /\ ops[0][1].st = "pending"
  /\ ops[0][2].st = "pending"

\* ------------------------------------------------------ one message per tick
\* C36: at a rank where set_buffer_size was called once, a step invokes at
\* most one receive callback and makes at most one handler call per
\* registered handler; after a step that invoked one, the working set is
\* empty and the receive it armed is the only request of the staging list,
\* pending at the transport and not called back, whatever waits in msgs.
C36_OneMessagePerTick ==
  [][\A r \in Ranks : sized[r] = 1 =>
       /\ Cardinality({k \in NewCallbacks(r) :
                         ops[r][cbLog'[r][k].op].kind = "recv"}) <= 1
       /\ Len(hlog'[r]) - Len(hlog[r]) <= Len(handlers[r])
       /\ NewCallbacks(r) # {} =>
            /\ requests_to_process'[r] = <<>>
            /\ Len(requests'[r]) = 1
            /\ requests'[r][1].cb = "received"
            /\ ops'[r][requests'[r][1].id].st = "pending"
            /\ Called(cbLog'[r], requests'[r][1].id) = 0]_vars

\* One message was dispatched to the handlers of rank 1 by a tick; another
\* one waits at the transport, and the receive armed for it is in the
\* staging list, not yet looked at.
C36_Witness ==
  /\ sized[1] = 1
  /\ Len(cbLog[1]) = 1
  /\ cbLog[1][1].ok
  /\ hlog[1] # <<>>
  /\ msgs[1] # <<>>
  /\ Len(requests[1]) = 1
  /\ ops[1][requests[1][1].id].st = "pending"

\* --------------------------------------------------------- late registration
\* C37 as claimed: a message whose receive the transport completed while no
\* handler was registered is never given to a handler.
C37_CompletedUnheardNeverHanded ==
  \A r \in Ranks : \A k \in 1 .. Len(hlog[r]) : hlog[r][k].op \notin unheard[r]

\* C37 amended: what counts is the tick that dispatches the message.  A tick
\* that invokes a receive callback while no handler is registered makes no
\* handler call for it; every handler call a step makes is for a message no
\* earlier tick has consumed, to a handler registered before that step.
C37_DispatchedToRegistered ==
  [][\A r \in Ranks :
       /\ \A k \in NewCallbacks(r) :
            (ops[r][cbLog'[r][k].op].kind = "recv" /\ handlers[r] = <<>>) =>
              HandlersCalled(hlog'[r], cbLog'[r][k].op) = <<>>
       /\ \A j \in (Len(hlog[r]) + 1) .. Len(hlog'[r]) :
            /\ Called(cbLog[r], hlog'[r][j].op) = 0
            /\ hlog'[r][j].h \in Elems(handlers[r])]_vars

\* C37 witness: rank 1 has dispatched a first message, with success, while
\* no handler was registered, and no handler call was made for it; a
\* handler was registered later and was given the second message.
C37_Witness ==
  /\ Len(cbLog[1]) = 2
  /\ cbLog[1][1].ok
  /\ HandlersCalled(hlog[1], cbLog[1][1].op) = <<>>
  /\ handlers[1] # <<>>
  /\ HandlersCalled(hlog[1], cbLog[1][2].op) = handlers[1]

====
